---------------------------- MODULE Spec2Model ----------------------------
(***************************************************************************)
(* A model of the Code Context Graph (CCG) pipeline of Codebase_genius:    *)
(* CodeAnalyzer (agents/code_analyzer.py): parser registry, per-file       *)
(* structural parsing with the grammar-based and the regex strategy, the   *)
(* CCG assembler and the relationship query.                               *)
(*                                                                         *)
(* A file's content is a flat token stream (what the regular expressions   *)
(* scan) together with the concrete syntax tree the grammar yields for it  *)
(* (what the traversals walk).  Elements carry name, type, file_path,      *)
(* line_start, line_end and parent; the column fields and the fields the   *)
(* code never sets (docstring, parameters, return_type, children) are left *)
(* out.                                                                    *)
(***************************************************************************)
EXTENDS Naturals, Sequences, FiniteSets, TLC

VARIABLES
    parsers,        \* CodeAnalyzer.parsers: the languages with a registered parser
    pc,             \* position of the analyze_codebase call
    repo_path,      \* analyze_codebase argument
    language,       \* analyze_codebase argument
    entry_points,   \* analyze_codebase argument
    ep_idx,         \* index of the next entry point of the first loop
    code_files,     \* the list _get_code_files returned
    cf_idx,         \* index of the next file of the second loop
    elements,       \* local `elements` of analyze_codebase
    relationships,  \* local `relationships` of analyze_codebase
    graph,          \* local `graph` (nx.DiGraph) of analyze_codebase
    ccg,            \* the CodeContextGraph the call returned
    calls,          \* the _analyze_file calls made so far, with their results
    query,          \* query_relationships argument
    results,        \* query_relationships return value
    detector,       \* LanguageDetector.file_counts, in the order of insertion
    history,        \* the calls on the detector and the crawler, with results
    heap,           \* the dicts, lists and graphs that analyze_codebase created
    cloned_repos,   \* GitManager.cloned_repos: URL -> local path
    clone_dirs,     \* the clone directories that exist below temp_dir
    analysis_history,   \* CodeGenius.analysis_history
    analysis_results,   \* main.analysis_results: analysis_id -> AnalysisResult
    analysis_status,    \* main.analysis_status: analysis_id -> AnalysisStatus
    now             \* datetime.now(), in half seconds since the start

AnalyzerVars == <<parsers, pc, repo_path, language, entry_points, ep_idx, code_files,
                  cf_idx, elements, relationships, graph, ccg, calls, query, results>>

vars == <<parsers, pc, repo_path, language, entry_points, ep_idx, code_files,
          cf_idx, elements, relationships, graph, ccg, calls, query, results,
          detector, history, heap, cloned_repos, clone_dirs, analysis_history,
          analysis_results, analysis_status, now>>

ServiceVars == <<cloned_repos, clone_dirs, analysis_history, analysis_results,
                 analysis_status, now>>

\* GitManager.__init__, CodeGenius.__init__ and the module level of main.py
InitService ==
    /\ cloned_repos = << >> /\ clone_dirs = {}
    /\ analysis_history = << >>
    /\ analysis_results = << >> /\ analysis_status = << >>
    /\ now = 0

(***************************************************************************)
(* Bounds of the model.                                                    *)
(***************************************************************************)
MaxEntryPoints == 2     \* longest entry_points list
MaxCalls == 2           \* _analyze_file calls kept in SpecFile
MaxRels == 2            \* longest relationship sequence drawn in SpecQuery
MaxDetects == 2
MaxCrawls == 2
MaxRuns == 2
MaxRunEntryPoints == 1
MaxGitCalls == 3        \* clone_repository and cleanup_repository calls on one manager
MaxAnalyses == 2        \* CodeGenius.analyze_repository calls on one supervisor
MaxRequests == 3        \* requests to the API backend
MaxNow == 2             \* last half second of the clock of the API backend

None == "<None>"
EmptyMap == [k \in {} |-> k]

Range(s) == {s[k] : k \in 1..Len(s)}

RECURSIVE Perms(_)
Perms(S) ==
    IF S = {} THEN {<< >>}
    ELSE UNION {{<<x>> \o p : p \in Perms(S \ {x})} : x \in S}

RECURSIVE SeqsUpTo(_, _)
SeqsUpTo(S, n) ==
    IF n = 0 THEN {<< >>}
    ELSE SeqsUpTo(S, n - 1) \cup
         {s \o <<x>> : s \in {t \in SeqsUpTo(S, n - 1) : Len(t) = n - 1}, x \in S}

(***************************************************************************)
(* Syntax trees: a node has a type, the text it spans (kept for the        *)
(* identifier-like leaves only), its first and last line (1-based here;    *)
(* the code adds 1 to the parser's 0-based rows) and its children.         *)
(***************************************************************************)
T(type, l1, l2, children) ==
    [type |-> type, text |-> "", l1 |-> l1, l2 |-> l2, children |-> children]
L(type, text, l) ==
    [type |-> type, text |-> text, l1 |-> l, l2 |-> l, children |-> << >>]

NL == "\n"
SP == " "


(***************************************************************************)
(* The file contents of the model.  Each is the token stream of the text   *)
(* in the comment, the tree its own grammar yields, and whether walking    *)
(* that tree raises (RecursionError on a deeply nested expression).        *)
(***************************************************************************)
Content(grammar, toks, tree, raises) ==
    [grammar |-> grammar, toks |-> toks, tree |-> tree, raises |-> raises]

\* 1 class Foo:
\* 2  def bar(self):
\* 3   pass
PyFooBar ==
    Content("python",
        <<"class", SP, "Foo", ":", NL,
          SP, "def", SP, "bar", "(", "self", ")", ":", NL,
          SP, SP, "pass", NL>>,
        T("module", 1, 3, <<
            T("class_definition", 1, 3, <<
                L("identifier", "Foo", 1),
                T("block", 2, 3, <<
                    T("function_definition", 2, 3, <<
                        L("identifier", "bar", 2),
                        T("parameters", 2, 2, <<L("identifier", "self", 2)>>),
                        T("block", 3, 3, <<L("pass_statement", "", 3)>>) >>) >>) >>) >>),
        FALSE)

\* 1 def baz():
\* 2  pass
PyBaz ==
    Content("python",
        <<"def", SP, "baz", "(", ")", ":", NL, SP, "pass", NL>>,
        T("module", 1, 2, <<
            T("function_definition", 1, 2, <<
                L("identifier", "baz", 1),
                T("parameters", 1, 1, << >>),
                T("block", 2, 2, <<L("pass_statement", "", 2)>>) >>) >>),
        FALSE)

\* a NUL byte, and a byte that is no UTF-8
NUL == "<NUL>"
BadByte == "<0xFF>"

\* open(..., encoding='utf-8', errors='ignore'): undecodable bytes are dropped
Decode(bytes) ==
    LET Valid(b) == b # BadByte
    IN  SelectSeq(bytes, Valid)

\* 1 def blob(): pass
\* 2 <NUL><0xFF>
PyNul ==
    Content("python",
        Decode(<<"def", SP, "blob", "(", ")", ":", SP, "pass", NL, NUL, BadByte>>),
        T("module", 1, 2, <<
            T("function_definition", 1, 1, <<
                L("identifier", "blob", 1),
                T("parameters", 1, 1, << >>),
                T("block", 1, 1, <<L("pass_statement", "", 1)>>) >>),
            T("ERROR", 2, 2, << >>) >>),
        FALSE)

\* 1 import os
\* 2 class Foo:
\* 3  def run(self):
\* 4   pass
\* 5 class B:
\* 6  def run(self):
\* 7   pass
\* 8 def Foo():
\* 9  pass
PyClash ==
    Content("python",
        <<"import", SP, "os", NL,
          "class", SP, "Foo", ":", NL,
          SP, "def", SP, "run", "(", "self", ")", ":", NL,
          SP, SP, "pass", NL,
          "class", SP, "B", ":", NL,
          SP, "def", SP, "run", "(", "self", ")", ":", NL,
          SP, SP, "pass", NL,
          "def", SP, "Foo", "(", ")", ":", NL,
          SP, "pass", NL>>,
        T("module", 1, 9, <<
            T("import_statement", 1, 1, <<L("dotted_name", "os", 1)>>),
            T("class_definition", 2, 4, <<
                L("identifier", "Foo", 2),
                T("block", 3, 4, <<
                    T("function_definition", 3, 4, <<
                        L("identifier", "run", 3),
                        T("parameters", 3, 3, <<L("identifier", "self", 3)>>),
                        T("block", 4, 4, <<L("pass_statement", "", 4)>>) >>) >>) >>),
            T("class_definition", 5, 7, <<
                L("identifier", "B", 5),
                T("block", 6, 7, <<
                    T("function_definition", 6, 7, <<
                        L("identifier", "run", 6),
                        T("parameters", 6, 6, <<L("identifier", "self", 6)>>),
                        T("block", 7, 7, <<L("pass_statement", "", 7)>>) >>) >>) >>),
            T("function_definition", 8, 9, <<
                L("identifier", "Foo", 8),
                T("parameters", 8, 8, << >>),
                T("block", 9, 9, <<L("pass_statement", "", 9)>>) >>) >>),
        FALSE)

\* 1 class Outer:
\* 2  class Inner:
\* 3   def m(self):
\* 4    def helper():
\* 5     pass
PyNested ==
    Content("python",
        <<"class", SP, "Outer", ":", NL,
          SP, "class", SP, "Inner", ":", NL,
          SP, SP, "def", SP, "m", "(", "self", ")", ":", NL,
          SP, SP, SP, "def", SP, "helper", "(", ")", ":", NL,
          SP, SP, SP, SP, "pass", NL>>,
        T("module", 1, 5, <<
            T("class_definition", 1, 5, <<
                L("identifier", "Outer", 1),
                T("block", 2, 5, <<
                    T("class_definition", 2, 5, <<
                        L("identifier", "Inner", 2),
                        T("block", 3, 5, <<
                            T("function_definition", 3, 5, <<
                                L("identifier", "m", 3),
                                T("parameters", 3, 3, <<L("identifier", "self", 3)>>),
                                T("block", 4, 5, <<
                                    T("function_definition", 4, 5, <<
                                        L("identifier", "helper", 4),
                                        T("parameters", 4, 4, << >>),
                                        T("block", 5, 5, <<L("pass_statement", "", 5)>>)
                                    >>) >>) >>) >>) >>) >>) >>) >>),
        FALSE)

\* 1 def deep():
\* 2  return 1+1+ ... +1      (nested beyond the interpreter's recursion limit)
PyDeep ==
    Content("python",
        <<"def", SP, "deep", "(", ")", ":", NL, SP, "return", SP, "1", NL>>,
        T("module", 1, 2, <<
            T("function_definition", 1, 2, <<
                L("identifier", "deep", 1),
                T("parameters", 1, 1, << >>),
                T("block", 2, 2, <<T("return_statement", 2, 2, << >>)>>) >>) >>),
        TRUE)

\* 1 class App {
\* 2  run() {}
\* 3 }
\* 4 function main() {
\* 5 }
JsApp ==
    Content("javascript",
        <<"class", SP, "App", SP, "{", NL,
          SP, "run", "(", ")", SP, "{", "}", NL,
          "}", NL,
          "function", SP, "main", "(", ")", SP, "{", NL,
          "}", NL>>,
        T("program", 1, 5, <<
            T("class_declaration", 1, 3, <<
                L("identifier", "App", 1),
                T("class_body", 1, 3, <<
                    T("method_definition", 2, 2, <<
                        L("property_identifier", "run", 2),
                        T("formal_parameters", 2, 2, << >>),
                        T("statement_block", 2, 2, << >>) >>) >>) >>),
            T("function_declaration", 4, 5, <<
                L("identifier", "main", 4),
                T("formal_parameters", 4, 4, << >>),
                T("statement_block", 4, 5, << >>) >>) >>),
        FALSE)

\* 1 public class Main {
\* 2  void run() {
\* 3  }
\* 4 }
JavaMain ==
    Content("java",
        <<"public", SP, "class", SP, "Main", SP, "{", NL,
          SP, "void", SP, "run", "(", ")", SP, "{", NL,
          SP, "}", NL,
          "}", NL>>,
        T("program", 1, 4, <<
            T("class_declaration", 1, 4, <<
                T("modifiers", 1, 1, << >>),
                L("identifier", "Main", 1),
                T("class_body", 1, 4, <<
                    T("method_declaration", 2, 3, <<
                        L("void_type", "void", 2),
                        L("identifier", "run", 2),
                        T("formal_parameters", 2, 2, << >>),
                        T("block", 2, 3, << >>) >>) >>) >>) >>),
        FALSE)

\* What a grammar yields for text of another language: no declaration nodes.
ErrorTree == T("ERROR", 1, 1, << >>)

(***************************************************************************)
(* The local storage: repository root -> relative path -> item.  A         *)
(* directory whose name ends in .py exists and is listed by rglob, and     *)
(* cannot be opened.  A file in a directory without search permission is   *)
(* listed by rglob, and neither stat() nor open() are permitted on it.     *)
(***************************************************************************)
File(ext, content) == [kind |-> "file", ext |-> ext, content |-> content]
Dir(ext) == [kind |-> "directory", ext |-> ext, content |-> None]
Denied(ext) == [kind |-> "denied", ext |-> ext, content |-> None]

Disk ==
    [root \in {"/srv/r1", "/tmp/r2", "/tmp/r3", "/tmp/r4", "/tmp/r5"} |->
        CASE root = "/srv/r1" ->
                ("a.py" :> File(".py", PyFooBar)) @@ ("b.py" :> File(".py", PyBaz))
          [] root = "/tmp/r2" ->
                ("a.py" :> File(".py", PyFooBar)) @@ ("b.py" :> File(".py", PyClash))
          [] root = "/tmp/r3" ->
                ("app.js" :> File(".js", JsApp)) @@ ("Main.java" :> File(".java", JavaMain))
                @@ ("deep.py" :> File(".py", PyDeep)) @@ ("pkg.py" :> Dir(".py"))
                @@ ("locked/in.py" :> Denied(".py"))
          [] root = "/tmp/r4" ->
                ("ok.py" :> File(".py", PyBaz)) @@ ("deep.py" :> File(".py", PyDeep))
                @@ ("blob.py" :> File(".py", PyNul))
          [] root = "/tmp/r5" ->
                ("nested.py" :> File(".py", PyNested))]

Roots == DOMAIN Disk
Languages == {"python", "javascript", "java", "go"}
MissingFile == "missing.py"

\* a root path that does not exist
MissingRoot == "/tmp/none"
FilesOf(root) == IF root \in Roots THEN DOMAIN Disk[root] ELSE {}

(***************************************************************************)
(* Dictionaries and the element schema.                                    *)
(***************************************************************************)
Put(m, k, v) == [x \in DOMAIN m \cup {k} |-> IF x = k THEN v ELSE m[x]]

\* dict.update: the entries of b are added to a, replacing those of equal key
Update(a, b) == [x \in DOMAIN a \cup DOMAIN b |-> IF x \in DOMAIN b THEN b[x] ELSE a[x]]

CodeElement(name, type, file_path, line_start, line_end, parent) ==
    [name |-> name, type |-> type, file_path |-> file_path,
     line_start |-> line_start, line_end |-> line_end, parent |-> parent]

Truthy(s) == s # None /\ s # ""

\* f"{file_path}:{name}" without the file path: the id a path-less scheme gives
ElementIdNoPath(file_path, name) == name

\* f"{file_path}:{name}"
ElementId(file_path, name) == file_path \o ":" \o name

\* f"{file_path}:import:{module_name}"
ImportId(file_path, module_name) == file_path \o ":import:" \o module_name

Acc(els, rels) == [elements |-> els, relationships |-> rels]
EmptyAcc == Acc(EmptyMap, << >>)

(***************************************************************************)
(* Grammar-based strategy.                                                 *)
(***************************************************************************)
RECURSIVE FirstChildText(_, _, _)
FirstChildText(children, child_type, k) ==
    IF k > Len(children) THEN None
    ELSE IF children[k].type = child_type THEN children[k].text
    ELSE FirstChildText(children, child_type, k + 1)

_get_node_text(node, child_type) == FirstChildText(node.children, child_type, 1)

_get_import_name(node) == FirstChildText(node.children, "dotted_name", 1)

\* the grandchildren reached by `for child in node.children: if child.type ==
\* body_type: for grandchild in child.children`
RECURSIVE BodyNodes(_, _, _)
BodyNodes(children, body_type, k) ==
    IF k > Len(children) THEN << >>
    ELSE (IF children[k].type = body_type THEN children[k].children ELSE << >>)
         \o BodyNodes(children, body_type, k + 1)

\* the parent handed to the declarations of a class body: the outer parent
ClassBodyParentOuter(element_id, parent) == parent

\* the parent handed to the declarations of a class body: the class's id
ClassBodyParent(element_id, parent) == element_id

\* elements[element_id] = element; if parent: relationships.append(...)
Record(acc, element_id, element, parent) ==
    Acc(Put(acc.elements, element_id, element),
        IF Truthy(parent)
        THEN Append(acc.relationships, <<parent, element_id, "contains">>)
        ELSE acc.relationships)

\* node types each traversal recognises; None where it has no such branch
FuncType(lang) ==
    CASE lang = "python" -> "function_definition"
      [] lang = "javascript" -> "function_declaration"
      [] lang = "java" -> "method_declaration"
ClassType(lang) ==
    CASE lang = "python" -> "class_definition"
      [] lang = "javascript" -> "class_declaration"
      [] lang = "java" -> "class_declaration"
BodyType(lang) ==
    CASE lang = "python" -> "block"
      [] lang = "javascript" -> None
      [] lang = "java" -> "class_body"
ImportType(lang) == IF lang = "python" THEN "import_statement" ELSE None

RECURSIVE traverse_node(_, _, _, _, _), traverse_all(_, _, _, _, _, _)
traverse_node(lang, node, parent, file_path, acc) ==
    LET name == _get_node_text(node, "identifier")
        element_id == ElementId(file_path, name)
        module_name == _get_import_name(node)
        a1 ==
            CASE node.type = FuncType(lang) /\ Truthy(name) ->
                    Record(acc, element_id,
                           CodeElement(name, "function", file_path, node.l1, node.l2, parent),
                           parent)
              [] node.type = ClassType(lang) /\ Truthy(name) ->
                    LET a == Record(acc, element_id,
                                    CodeElement(name, "class", file_path, node.l1, node.l2, parent),
                                    parent)
                    IN  IF BodyType(lang) = None THEN a
                        ELSE traverse_all(lang, BodyNodes(node.children, BodyType(lang), 1),
                                          ClassBodyParent(element_id, parent), file_path, a, 1)
              [] node.type = ImportType(lang) /\ Truthy(module_name) ->
                    Acc(Put(acc.elements, ImportId(file_path, module_name),
                            CodeElement(module_name, "import", file_path, node.l1, node.l2, None)),
                        acc.relationships)
              [] OTHER -> acc
    IN  \* Traverse children
        traverse_all(lang, node.children, parent, file_path, a1, 1)
traverse_all(lang, nodes, parent, file_path, acc, k) ==
    IF k > Len(nodes) THEN acc
    ELSE LET a == traverse_node(lang, nodes[k], parent, file_path, acc)
         IN  \* the test makes TLC evaluate a before it goes on, as Python does
             IF a = a THEN traverse_all(lang, nodes, parent, file_path, a, k + 1)
             ELSE a

_parse_python_ast(root_node, file_path) ==
    traverse_node("python", root_node, None, file_path, EmptyAcc)

_parse_javascript_ast(root_node, file_path) ==
    traverse_node("javascript", root_node, None, file_path, EmptyAcc)

_parse_java_ast(root_node, file_path) ==
    traverse_node("java", root_node, None, file_path, EmptyAcc)

(***************************************************************************)
(* Regex strategy.  The patterns are matched on the token stream: \s is a  *)
(* SP or NL token, \w+ a word token, [^)]* any tokens up to the next ")".  *)
(***************************************************************************)
EOF == "<EOF>"
NonWord == {SP, NL, ":", "(", ")", "{", "}", "=", "=>", EOF}
Tok(toks, i) == IF i \in 1..Len(toks) THEN toks[i] ELSE EOF
IsWs(t) == t \in {SP, NL}
IsWord(t) == t \notin NonWord

Min(S) == CHOOSE x \in S : \A y \in S : x <= y

\* \s*: the index of the first token at or after i that is no white space
SkipWs(toks, i) == Min({k \in i..(Len(toks) + 1) : ~IsWs(Tok(toks, k))})

\* index of the first token t at or after i, 0 when there is none
FindTok(toks, i, t) ==
    LET found == {k \in i..Len(toks) : toks[k] = t}
    IN  IF found = {} THEN 0 ELSE Min(found)

\* content[:match.start()].count('\n') + 1
LineNum(toks, start) == Cardinality({k \in 1..(start - 1) : toks[k] = NL}) + 1

NoMatch == [ok |-> FALSE, start |-> 0, stop |-> 0, name |-> None]
Match(start, stop, name) == [ok |-> TRUE, start |-> start, stop |-> stop, name |-> name]

\* \s+(\w+) after the keyword at p: the index of the name, 0 when there is none
NameAfter(toks, p) ==
    LET q == SkipWs(toks, p + 1)
    IN  IF IsWs(Tok(toks, p + 1)) /\ IsWord(Tok(toks, q)) THEN q ELSE 0

\* \([^)]*\) at r: the index of the closing ")", 0 when there is none
ParenAt(toks, r) == IF Tok(toks, r) = "(" THEN FindTok(toks, r + 1, ")") ELSE 0

\* (?:\s+extends\s+\w+)? after the class name at q: the index after it
AfterExtends(toks, q) ==
    LET e == SkipWs(toks, q + 1)
        w == NameAfter(toks, e)
    IN  IF IsWs(Tok(toks, q + 1)) /\ Tok(toks, e) = "extends" /\ w # 0
        THEN w + 1 ELSE q + 1

\* r'^def\s+(\w+)\s*\([^)]*\):'
PyFuncAt(toks, p) ==
    LET q == NameAfter(toks, p)
        s == ParenAt(toks, SkipWs(toks, q + 1))
    IN  IF /\ (p = 1 \/ Tok(toks, p - 1) = NL)
           /\ Tok(toks, p) = "def" /\ q # 0 /\ s # 0 /\ Tok(toks, s + 1) = ":"
        THEN Match(p, s + 2, toks[q]) ELSE NoMatch

\* r'^class\s+(\w+)(?:\([^)]*\))?:'
PyClassAt(toks, p) ==
    LET q == NameAfter(toks, p)
        s == ParenAt(toks, q + 1)
    IN  IF (p = 1 \/ Tok(toks, p - 1) = NL) /\ Tok(toks, p) = "class" /\ q # 0
        THEN IF Tok(toks, q + 1) = ":" THEN Match(p, q + 2, toks[q])
             ELSE IF s # 0 /\ Tok(toks, s + 1) = ":" THEN Match(p, s + 2, toks[q])
             ELSE NoMatch
        ELSE NoMatch

\* r'function\s+(\w+)\s*\('
JsFuncAt(toks, p) ==
    LET q == NameAfter(toks, p)
        r == SkipWs(toks, q + 1)
    IN  IF Tok(toks, p) = "function" /\ q # 0 /\ Tok(toks, r) = "("
        THEN Match(p, r + 1, toks[q]) ELSE NoMatch

\* r'const\s+(\w+)\s*=\s*(?:async\s+)?\([^)]*\)\s*=>' (kw: const, let, var)
JsArrowAt(toks, p, kw) ==
    LET q == NameAfter(toks, p)
        r == SkipWs(toks, q + 1)
        a == SkipWs(toks, r + 1)
        b == IF Tok(toks, a) = "async" /\ IsWs(Tok(toks, a + 1))
             THEN SkipWs(toks, a + 1) ELSE a
        s == ParenAt(toks, b)
        t == SkipWs(toks, s + 1)
    IN  IF /\ Tok(toks, p) = kw /\ q # 0 /\ Tok(toks, r) = "="
           /\ s # 0 /\ Tok(toks, t) = "=>"
        THEN Match(p, t + 1, toks[q]) ELSE NoMatch

\* r'class\s+(\w+)(?:\s+extends\s+\w+)?\s*{'
JsClassAt(toks, p) ==
    LET q == NameAfter(toks, p)
        x == SkipWs(toks, AfterExtends(toks, q))
        y == SkipWs(toks, q + 1)
    IN  IF Tok(toks, p) = "class" /\ q # 0
        THEN IF Tok(toks, x) = "{" THEN Match(p, x + 1, toks[q])
             ELSE IF Tok(toks, y) = "{" THEN Match(p, y + 1, toks[q])
             ELSE NoMatch
        ELSE NoMatch

\* the end of the run of \s and \w+ tokens that starts at p
RunEnd(toks, i) ==
    Min({k \in i..(Len(toks) + 1) : ~(IsWs(Tok(toks, k)) \/ IsWord(Tok(toks, k)))})

\* r'(?:public|private|protected)?\s*(?:static\s+)?(?:final\s+)?(?:\w+\s+)*(\w+)\s*\([^)]*\)\s*{'
\* every part before (\w+) is optional and made of words and white space, so
\* a match starts at p when the run of such tokens from p ends in a word
\* followed by \s*\([^)]*\)\s*{
JavaMethodAt(toks, p) ==
    LET q == RunEnd(toks, p)
        names == {k \in p..(q - 1) : IsWord(toks[k])}
        n == CHOOSE k \in names : \A j \in names : j <= k
        s == ParenAt(toks, q)
        t == SkipWs(toks, s + 1)
    IN  IF names # {} /\ s # 0 /\ Tok(toks, t) = "{"
        THEN Match(p, t + 1, toks[n]) ELSE NoMatch

\* r'(?:public\s+)?class\s+(\w+)(?:\s+extends\s+\w+)?(?:\s+implements\s+[^{]+)?\s*{'
JavaClassAt(toks, p) ==
    LET c == IF Tok(toks, p) = "public" /\ IsWs(Tok(toks, p + 1))
                /\ Tok(toks, SkipWs(toks, p + 1)) = "class"
             THEN SkipWs(toks, p + 1) ELSE p
        q == NameAfter(toks, c)
        ClassTail(x) ==
            LET r == SkipWs(toks, x)
                b == FindTok(toks, r + 2, "{")
            IN  IF Tok(toks, r) = "{" THEN r + 1
                ELSE IF /\ IsWs(Tok(toks, x)) /\ Tok(toks, r) = "implements"
                        /\ IsWs(Tok(toks, r + 1)) /\ b > r + 2
                     THEN b + 1 ELSE 0
        t1 == ClassTail(AfterExtends(toks, q))
        t2 == ClassTail(q + 1)
    IN  IF Tok(toks, c) = "class" /\ q # 0
        THEN IF t1 # 0 THEN Match(p, t1, toks[q])
             ELSE IF t2 # 0 THEN Match(p, t2, toks[q])
             ELSE NoMatch
        ELSE NoMatch

MatchAt(pat, toks, p) ==
    CASE pat = "py_func" -> PyFuncAt(toks, p)
      [] pat = "py_class" -> PyClassAt(toks, p)
      [] pat = "js_func" -> JsFuncAt(toks, p)
      [] pat \in {"const", "let", "var"} -> JsArrowAt(toks, p, pat)
      [] pat = "js_class" -> JsClassAt(toks, p)
      [] pat = "java_method" -> JavaMethodAt(toks, p)
      [] pat = "java_class" -> JavaClassAt(toks, p)

\* re.finditer: the non-overlapping matches, leftmost first
RECURSIVE Leftmost(_, _)
Leftmost(ms, pos) ==
    LET starts == {p \in pos..Len(ms) : ms[p].ok}
    IN  IF starts = {} THEN << >>
        ELSE <<ms[Min(starts)]>> \o Leftmost(ms, ms[Min(starts)].stop)

FindIter(pat, toks) == Leftmost([p \in 1..Len(toks) |-> MatchAt(pat, toks, p)], 1)

\* for match in re.finditer(...): elements[f"{file_path}:{name}"] = element
RECURSIVE AddMatches(_, _, _, _, _, _)
AddMatches(els, ms, type, toks, file_path, k) ==
    IF k > Len(ms) THEN els
    ELSE LET line_num == LineNum(toks, ms[k].start)
         IN  AddMatches(
                Put(els, ElementId(file_path, ms[k].name),
                    CodeElement(ms[k].name, type, file_path, line_num, line_num, None)),
                ms, type, toks, file_path, k + 1)

RegexPass(els, pat, type, toks, file_path) ==
    AddMatches(els, FindIter(pat, toks), type, toks, file_path, 1)

\* the patterns each _regex_parse_* applies, in its order, with the element
\* type it records for a match
_regex_parse_python == <<<<"py_func", "function">>, <<"py_class", "class">>>>

_regex_parse_javascript ==
    <<<<"js_func", "function">>, <<"const", "function">>, <<"let", "function">>,
      <<"var", "function">>, <<"js_class", "class">>>>

_regex_parse_java == <<<<"java_method", "function">>, <<"java_class", "class">>>>

RECURSIVE RegexPasses(_, _, _, _, _)
RegexPasses(els, passes, toks, file_path, k) ==
    IF k > Len(passes) THEN els
    ELSE LET e == RegexPass(els, passes[k][1], passes[k][2], toks, file_path)
         IN  IF e = e THEN RegexPasses(e, passes, toks, file_path, k + 1) ELSE e

_parse_with_regex(toks, file_path, lang) ==
    LET passes == CASE lang = "python" -> _regex_parse_python
                    [] lang = "javascript" -> _regex_parse_javascript
                    [] lang = "java" -> _regex_parse_java
                    [] OTHER -> << >>
    IN  Acc(RegexPasses(EmptyMap, passes, toks, file_path, 1), << >>)

(***************************************************************************)
(* Paths, the parser registry and the per-file analysis.                   *)
(***************************************************************************)
\* repo_path / entry_point
PathJoin(root, rel) == [root |-> root, rel |-> rel]

\* file_path.exists()
Exists(path) == path.root \in DOMAIN Disk /\ path.rel \in DOMAIN Disk[path.root]

\* file_path.exists() raises PermissionError: stat() answers EACCES
StatRaises(path) == Exists(path) /\ Disk[path.root][path.rel].kind = "denied"

\* open(file_path, 'r', ...) succeeds
Readable(path) == Exists(path) /\ Disk[path.root][path.rel].kind = "file"

ContentOf(path) == Disk[path.root][path.rel].content

\* str(file_path): the path with the repository root in it
RelativeToAbsolute(path, root) == path.root \o "/" \o path.rel

\* str(file_path.relative_to(Path(repo_root)))
RelativeTo(path, root) == path.rel

\* the order in which _initialize_parsers registers the languages; the first
\* failing Language(...)/Parser(...) call ends the registration
ParserOrder == <<"python", "javascript", "java", "cpp", "rust", "go">>
_initialize_parsers(n) == {ParserOrder[k] : k \in 1..n}

Result(acc, raised) ==
    [elements |-> acc.elements, relationships |-> acc.relationships, raised |-> raised]

\* parser.parse(...).root_node
Parse(content, lang) == IF content.grammar = lang THEN content.tree ELSE ErrorTree

\* the traversal of the tree raises
Raises(content, lang) == content.raises /\ content.grammar = lang

\* an except clause that lets the error go on to the caller
OnParseErrorRaise(content, file_path, lang) == Result(EmptyAcc, TRUE)

\* except Exception: return self._parse_with_regex(content, file_path, language)
OnParseError(content, file_path, lang) ==
    Result(_parse_with_regex(content.toks, file_path, lang), FALSE)

_parse_with_treesitter(content, file_path, lang) ==
    IF Raises(content, lang) THEN OnParseError(content, file_path, lang)
    ELSE Result(CASE lang = "python" -> _parse_python_ast(Parse(content, lang), file_path)
                  [] lang = "javascript" -> _parse_javascript_ast(Parse(content, lang), file_path)
                  [] lang = "java" -> _parse_java_ast(Parse(content, lang), file_path)
                  [] OTHER -> EmptyAcc,
                FALSE)

\* if language in self.parsers: ... else: ...
ChooseStrategy(content, relative_path, lang) ==
    IF lang \in parsers
    THEN _parse_with_treesitter(content, relative_path, lang)
    ELSE Result(_parse_with_regex(content.toks, relative_path, lang), FALSE)

\* except: return {}, []
OnOpenError(file_path) == Result(EmptyAcc, FALSE)

_analyze_file(file_path, lang, repo_root) ==
    IF ~Readable(file_path) THEN OnOpenError(file_path)
    ELSE ChooseStrategy(ContentOf(file_path), RelativeTo(file_path, repo_root), lang)

(***************************************************************************)
(* _get_code_files: for each extension of the language, what rglob finds,  *)
(* in the order the file system lists it.                                  *)
(***************************************************************************)
Extensions(lang) ==
    CASE lang = "python" -> <<".py">>
      [] lang = "jac" -> <<".jac">>
      [] lang = "javascript" -> <<".js", ".jsx">>
      [] lang = "java" -> <<".java">>
      [] lang = "cpp" -> <<".cpp", ".cc", ".cxx", ".hpp", ".h">>
      [] lang = "rust" -> <<".rs">>
      [] lang = "go" -> <<".go">>
      [] OTHER -> << >>

Rglob(root, ext) == {rel \in FilesOf(root) : Disk[root][rel].ext = ext}

RECURSIVE CodeFileLists(_, _, _)
CodeFileLists(root, exts, k) ==
    IF k > Len(exts) THEN {<< >>}
    ELSE {p \o rest : p \in Perms(Rglob(root, exts[k])),
                      rest \in CodeFileLists(root, exts, k + 1)}

_get_code_files(root, lang) == CodeFileLists(root, Extensions(lang), 1)

(***************************************************************************)
(* The graph view (nx.DiGraph): nodes with attributes, labelled edges.     *)
(* add_edge creates the endpoints that are not nodes yet, and replaces the *)
(* label of an edge that exists.                                           *)
(***************************************************************************)
EmptyGraph == [nodes |-> EmptyMap, edges |-> EmptyMap]

add_edge(g, u, v, label) ==
    [nodes |-> Update((u :> EmptyMap) @@ (v :> EmptyMap), g.nodes),
     edges |-> Put(g.edges, <<u, v>>, label)]

RECURSIVE AddEdges(_, _, _)
AddEdges(g, rels, k) ==
    IF k > Len(rels) THEN g
    ELSE AddEdges(add_edge(g, rels[k][1], rels[k][2], rels[k][3]), rels, k + 1)

\* for element_id, element in elements.items(): graph.add_node(...)
\* for from_id, to_id, rel_type in relationships: graph.add_edge(...)
build_graph(els, rels) ==
    AddEdges([nodes |-> els, edges |-> EmptyMap], rels, 1)

CodeContextGraph(els, rels, g) == [elements |-> els, relationships |-> rels, graph |-> g]
NoCCG == CodeContextGraph(EmptyMap, << >>, EmptyGraph)

(***************************************************************************)
(* query_relationships.  A query is a sequence of characters.              *)
(***************************************************************************)
UpperCase == <<"A", "B", "C", "D", "E", "F", "G", "H", "I", "J", "K", "L", "M",
               "N", "O", "P", "Q", "R", "S", "T", "U", "V", "W", "X", "Y", "Z">>
LowerCase == <<"a", "b", "c", "d", "e", "f", "g", "h", "i", "j", "k", "l", "m",
               "n", "o", "p", "q", "r", "s", "t", "u", "v", "w", "x", "y", "z">>

\* a check of the query as typed, without lower()
LowerIdentity(q) == q

\* query.lower()
Lower(q) ==
    [k \in 1..Len(q) |->
        IF \E n \in 1..Len(UpperCase) : UpperCase[n] = q[k]
        THEN LowerCase[CHOOSE n \in 1..Len(UpperCase) : UpperCase[n] = q[k]]
        ELSE q[k]]

\* word in text
Contains(text, word) ==
    \E i \in 0..Len(text) :
        /\ i + Len(word) <= Len(text)
        /\ \A k \in 1..Len(word) : text[i + k] = word[k]

\* a loop that appends a record for every relationship, whatever its kind
RECURSIVE SelectAny(_, _, _)
SelectAny(rels, kind, k) ==
    IF k > Len(rels) THEN << >>
    ELSE <<[from |-> rels[k][1], to |-> rels[k][2], relationship |-> rels[k][3]]>>
         \o SelectAny(rels, kind, k + 1)

\* for from_id, to_id, rel_type in ccg.relationships:
\*     if rel_type == kind: results.append({...})
RECURSIVE Select(_, _, _)
Select(rels, kind, k) ==
    IF k > Len(rels) THEN << >>
    ELSE (IF rels[k][3] = kind
          THEN <<[from |-> rels[k][1], to |-> rels[k][2], relationship |-> rels[k][3]]>>
          ELSE << >>)
         \o Select(rels, kind, k + 1)

query_relationships(c, q) ==
    IF Contains(Lower(q), <<"c", "a", "l", "l", "s">>)
    THEN Select(c.relationships, "calls", 1)
    ELSE IF Contains(Lower(q), <<"i", "n", "h", "e", "r", "i", "t", "s">>)
    THEN Select(c.relationships, "inherits", 1)
    ELSE << >>

(***************************************************************************)
(* analyze_codebase, one step per loop iteration.                          *)
(***************************************************************************)
Queries ==
    {<<"s", "h", "o", "w", " ", "c", "a", "l", "l", "s">>,
     <<"C", "A", "L", "L", "S">>,
     <<"i", "n", "h", "e", "r", "i", "t", "s">>,
     <<"I", "n", "h", "e", "r", "i", "t", "s", " ", "c", "a", "l", "l", "s">>,
     <<"c", "a", "l", "l">>,
     << >>}

\* a merge that keeps only the elements of the file merged last
MergeReplace(els, file_elements) == file_elements

\* elements.update(file_elements)
Merge(els, file_elements) == Update(els, file_elements)

\* relationships.extend(file_relationships) at the front of the list
ExtendFront(rels, file_relationships) == file_relationships \o rels

\* relationships.extend(file_relationships)
Extend(rels, file_relationships) == rels \o file_relationships

\* a second loop that takes every code file
NotInEntryPointsAlways(rel) == TRUE

\* str(file_path.relative_to(repo_path)) not in entry_points
NotInEntryPoints(rel) ==
    RelativeTo(PathJoin(repo_path, rel), repo_path) \notin Range(entry_points)

Call(root, rel, lang, res) ==
    [repo_root |-> root, rel |-> rel, language |-> lang, result |-> res]

\* file_elements, file_relationships = self._analyze_file(...)
\* elements.update(file_elements); relationships.extend(file_relationships)
AnalyzeAndMerge(rel) ==
    LET res == _analyze_file(PathJoin(repo_path, rel), language, repo_path)
    IN  /\ calls' = Append(calls, Call(repo_path, rel, language, res))
        /\ IF res.raised
           THEN pc' = "raised" /\ UNCHANGED <<elements, relationships>>
           ELSE /\ elements' = Merge(elements, res.elements)
                /\ relationships' = Extend(relationships, res.relationships)
                /\ pc' = pc

Init ==
    /\ \E n \in 0..Len(ParserOrder) : parsers = _initialize_parsers(n)
    /\ pc = "idle"
    /\ repo_path = None /\ language = None /\ entry_points = << >>
    /\ ep_idx = 1 /\ code_files = << >> /\ cf_idx = 1
    /\ elements = EmptyMap /\ relationships = << >> /\ graph = EmptyGraph
    /\ ccg = NoCCG /\ calls = << >>
    /\ query = << >> /\ results = << >>
    /\ detector = << >> /\ history = << >> /\ heap = << >>
    /\ InitService

Start ==
    /\ pc = "idle"
    /\ \E root \in Roots \cup {MissingRoot}, lang \in Languages :
        \E eps \in SeqsUpTo(FilesOf(root) \cup {MissingFile}, MaxEntryPoints) :
            /\ repo_path' = root
            /\ language' = lang
            /\ entry_points' = eps
    /\ elements' = EmptyMap /\ relationships' = << >> /\ graph' = EmptyGraph
    /\ ep_idx' = 1
    /\ pc' = "entry_points"
    /\ UNCHANGED <<detector, history, heap, ServiceVars>>
    /\ UNCHANGED <<parsers, code_files, cf_idx, ccg, calls, query, results>>

\* for entry_point in entry_points: if file_path.exists(): ...
AnalyzeEntryPoint ==
    /\ pc = "entry_points"
    /\ ep_idx <= Len(entry_points)
    /\ IF StatRaises(PathJoin(repo_path, entry_points[ep_idx]))
       THEN pc' = "raised" /\ UNCHANGED <<elements, relationships, calls>>
       ELSE IF Exists(PathJoin(repo_path, entry_points[ep_idx]))
            THEN AnalyzeAndMerge(entry_points[ep_idx])
            ELSE UNCHANGED <<elements, relationships, calls, pc>>
    /\ ep_idx' = ep_idx + 1
    /\ UNCHANGED <<detector, history, heap, ServiceVars>>
    /\ UNCHANGED <<parsers, repo_path, language, entry_points, code_files, cf_idx,
                   graph, ccg, query, results>>

\* self._get_code_files(repo_path, language)
GetCodeFiles ==
    /\ pc = "entry_points"
    /\ ep_idx > Len(entry_points)
    /\ code_files' \in _get_code_files(repo_path, language)
    /\ cf_idx' = 1
    /\ pc' = "remaining"
    /\ UNCHANGED <<detector, history, heap, ServiceVars>>
    /\ UNCHANGED <<parsers, repo_path, language, entry_points, ep_idx, elements,
                   relationships, graph, ccg, calls, query, results>>

\* for file_path in code_files: if ... not in entry_points: ...
AnalyzeRemaining ==
    /\ pc = "remaining"
    /\ cf_idx <= Len(code_files)
    /\ IF NotInEntryPoints(code_files[cf_idx])
       THEN AnalyzeAndMerge(code_files[cf_idx])
       ELSE UNCHANGED <<elements, relationships, calls, pc>>
    /\ cf_idx' = cf_idx + 1
    /\ UNCHANGED <<detector, history, heap, ServiceVars>>
    /\ UNCHANGED <<parsers, repo_path, language, entry_points, ep_idx, code_files,
                   graph, ccg, query, results>>

BuildGraph ==
    /\ pc = "remaining"
    /\ cf_idx > Len(code_files)
    /\ graph' = build_graph(elements, relationships)
    /\ pc' = "graph"
    /\ UNCHANGED <<detector, history, heap, ServiceVars>>
    /\ UNCHANGED <<parsers, repo_path, language, entry_points, ep_idx, code_files,
                   cf_idx, elements, relationships, ccg, calls, query, results>>

\* return CodeContextGraph(elements=..., relationships=..., graph=...)
Return ==
    /\ pc = "graph"
    /\ ccg' = CodeContextGraph(elements, relationships, graph)
    /\ pc' = "done"
    /\ UNCHANGED <<detector, history, heap, ServiceVars>>
    /\ UNCHANGED <<parsers, repo_path, language, entry_points, ep_idx, code_files,
                   cf_idx, elements, relationships, graph, calls, query, results>>

\* analyzer.query_relationships(ccg, query) on a CCG the analyzer returned
QueryRelationships ==
    /\ pc \in {"done", "queried"}
    /\ \E q \in Queries :
        /\ query' = q
        /\ results' = query_relationships(ccg, q)
    /\ pc' = "queried"
    /\ UNCHANGED <<detector, history, heap, ServiceVars>>
    /\ UNCHANGED <<parsers, repo_path, language, entry_points, ep_idx, code_files,
                   cf_idx, elements, relationships, graph, ccg, calls>>

Next ==
    \/ Start
    \/ AnalyzeEntryPoint
    \/ GetCodeFiles
    \/ AnalyzeRemaining
    \/ BuildGraph
    \/ Return
    \/ QueryRelationships

Spec == Init /\ [][Next]_vars

(***************************************************************************)
(* SpecFile: _analyze_file called on the files of the local storage.       *)
(***************************************************************************)
InitFile ==
    /\ \E n \in 0..Len(ParserOrder) : parsers = _initialize_parsers(n)
    /\ pc = "file"
    /\ repo_path = None /\ language = None /\ entry_points = << >>
    /\ ep_idx = 1 /\ code_files = << >> /\ cf_idx = 1
    /\ elements = EmptyMap /\ relationships = << >> /\ graph = EmptyGraph
    /\ ccg = NoCCG /\ calls = << >>
    /\ query = << >> /\ results = << >>
    /\ detector = << >> /\ history = << >> /\ heap = << >>
    /\ InitService

AnalyzeFile ==
    /\ pc = "file"
    /\ Len(calls) < MaxCalls
    /\ \E root \in Roots, lang \in Languages :
        \E rel \in DOMAIN Disk[root] :
            calls' = Append(calls, Call(root, rel, lang,
                                        _analyze_file(PathJoin(root, rel), lang, root)))
    /\ UNCHANGED <<detector, history, heap, ServiceVars>>
    /\ UNCHANGED <<parsers, pc, repo_path, language, entry_points, ep_idx, code_files,
                   cf_idx, elements, relationships, graph, ccg, query, results>>

NextFile == AnalyzeFile

SpecFile == InitFile /\ [][NextFile]_vars

(***************************************************************************)
(* SpecQuery: query_relationships on CodeContextGraph objects with         *)
(* relationships of every kind.                                            *)
(***************************************************************************)
RelTriples ==
    {<<f, t, kind>> : f \in {"a.py:Foo"}, t \in {"a.py:bar", "b.py:baz"},
                      kind \in {"calls", "inherits", "contains"}}

InitQuery ==
    /\ parsers = {}
    /\ pc = "done"
    /\ repo_path = None /\ language = None /\ entry_points = << >>
    /\ ep_idx = 1 /\ code_files = << >> /\ cf_idx = 1
    /\ elements = EmptyMap /\ relationships = << >> /\ graph = EmptyGraph
    /\ \E rels \in SeqsUpTo(RelTriples, MaxRels) :
        ccg = CodeContextGraph(EmptyMap, rels, build_graph(EmptyMap, rels))
    /\ calls = << >>
    /\ query = << >> /\ results = << >>
    /\ detector = << >> /\ history = << >> /\ heap = << >>
    /\ InitService

NextQuery == QueryRelationships

SpecQuery == InitQuery /\ [][NextQuery]_vars


(***************************************************************************)
(* LanguageDetector.  A pattern is a sequence of items: a literal token, *)
(* "^", "\s+", "\s*", "\w+" or ".*"; the search ignores the letter case.   *)
(***************************************************************************)
BOL == [item |-> "^"]
WS1 == [item |-> "\\s+"]
WS0 == [item |-> "\\s*"]
WORD == [item |-> "\\w+"]
ANY == [item |-> ".*"]
QUOTE == [item |-> "[\"']"]
Lit(x) == [item |-> "literal", text |-> x]

\* the token in lower case, for the tokens that the files on the storage hold
FoldCase(t) ==
    CASE t = "DEF" -> "def"
      [] t = "Main" -> "main"
      [] t = "IF" -> "if"
      [] t = ".PY" -> ".py"
      [] t = ".Js" -> ".js"
      [] OTHER -> t

IsWordTok(t) ==
    t \notin {SP, NL, NUL, EOF, ":", "(", ")", "{", "}", "=", "==", "=>", "<", ">", "\"", "'"}

\* re.match of the items from k on, at token i
RECURSIVE MatchFrom(_, _, _, _)
MatchFrom(pat, k, toks, i) ==
    IF k > Len(pat) THEN TRUE
    ELSE CASE pat[k] = BOL ->
                (i = 1 \/ Tok(toks, i - 1) = NL) /\ MatchFrom(pat, k + 1, toks, i)
           [] pat[k] = WS1 ->
                \E j \in (i + 1)..(Len(toks) + 1) :
                    /\ \A m \in i..(j - 1) : IsWs(Tok(toks, m))
                    /\ MatchFrom(pat, k + 1, toks, j)
           [] pat[k] = WS0 ->
                \E j \in i..(Len(toks) + 1) :
                    /\ \A m \in i..(j - 1) : IsWs(Tok(toks, m))
                    /\ MatchFrom(pat, k + 1, toks, j)
           [] pat[k] = WORD ->
                IsWordTok(Tok(toks, i)) /\ MatchFrom(pat, k + 1, toks, i + 1)
           [] pat[k] = QUOTE ->
                Tok(toks, i) \in {"\"", "'"} /\ MatchFrom(pat, k + 1, toks, i + 1)
           [] pat[k] = ANY ->
                \E j \in i..(Len(toks) + 1) :
                    /\ \A m \in i..(j - 1) : Tok(toks, m) # NL
                    /\ MatchFrom(pat, k + 1, toks, j)
           [] OTHER ->
                FoldCase(Tok(toks, i)) = pat[k].text /\ MatchFrom(pat, k + 1, toks, i + 1)

\* re.search(pattern, content, re.MULTILINE | re.IGNORECASE)
Search(pat, toks) == \E i \in 1..(Len(toks) + 1) : MatchFrom(pat, 1, toks, i)

\* EXTENSION_MAP, in the order of the source
EXTENSION_MAP ==
    <<<<".py", "python">>, <<".jac", "jac">>, <<".js", "javascript">>,
      <<".jsx", "javascript">>, <<".ts", "typescript">>, <<".tsx", "typescript">>,
      <<".java", "java">>, <<".cpp", "cpp">>, <<".cc", "cpp">>, <<".cxx", "cpp">>,
      <<".c", "c">>, <<".h", "c">>, <<".hpp", "cpp">>, <<".rs", "rust">>,
      <<".go", "go">>, <<".rb", "ruby">>, <<".php", "php">>, <<".swift", "swift">>,
      <<".kt", "kotlin">>, <<".scala", "scala">>, <<".r", "r">>, <<".m", "matlab">>,
      <<".jl", "julia">>, <<".sh", "shell">>, <<".bash", "shell">>, <<".zsh", "shell">>,
      <<".fish", "shell">>, <<".ps1", "powershell">>, <<".bat", "batch">>,
      <<".cmd", "batch">>, <<".sql", "sql">>, <<".html", "html">>, <<".css", "css">>,
      <<".scss", "scss">>, <<".sass", "sass">>, <<".less", "less">>, <<".xml", "xml">>,
      <<".yaml", "yaml">>, <<".yml", "yaml">>, <<".json", "json">>, <<".toml", "toml">>,
      <<".ini", "ini">>, <<".cfg", "config">>, <<".conf", "config">>,
      <<".dockerfile", "dockerfile">>, <<".dockerignore", "dockerignore">>,
      <<".gitignore", "gitignore">>, <<".md", "markdown">>,
      <<".rst", "restructuredtext">>, <<".tex", "latex">>, <<".txt", "text">>>>

\* LANGUAGE_PATTERNS, in the order of the source
LANGUAGE_PATTERNS ==
    <<<<"python", <<
        <<BOL, Lit("#!/usr/bin/env"), Lit(SP), Lit("python")>>,
        <<BOL, Lit("#!/usr/bin/python")>>,
        <<Lit("import"), WS1, WORD>>,
        <<Lit("from"), WS1, WORD, WS1, Lit("import")>>,
        <<Lit("def"), WS1, WORD, WS0, Lit("(")>>,
        <<Lit("class"), WS1, WORD>> >> >>,
      <<"jac", <<
        <<Lit("node"), WS1, WORD>>,
        <<Lit("walker"), WS1, WORD>>,
        <<Lit("edge"), WS1, WORD>>,
        <<Lit("graph"), WS1, WORD>>,
        <<Lit("can"), WS1, WORD>>,
        <<Lit("with"), WS1, Lit("entry")>> >> >>,
      <<"javascript", <<
        <<BOL, Lit("#!/usr/bin/env"), Lit(SP), Lit("node")>>,
        <<BOL, Lit("#!/usr/bin/node")>>,
        <<Lit("function"), WS1, WORD, WS0, Lit("(")>>,
        <<Lit("const"), WS1, WORD, WS0, Lit("=")>>,
        <<Lit("let"), WS1, WORD, WS0, Lit("=")>>,
        <<Lit("var"), WS1, WORD, WS0, Lit("=")>>,
        <<Lit("=>"), WS0, Lit("{")>>,
        <<Lit("require"), WS0, Lit("(")>>,
        <<Lit("import"), WS1, ANY, Lit("from")>> >> >>,
      <<"java", <<
        <<Lit("public"), WS1, Lit("class"), WS1, WORD>>,
        <<Lit("package"), WS1, WORD>>,
        <<Lit("import"), WS1, WORD>>,
        <<Lit("public"), WS1, Lit("static"), WS1, Lit("void"), WS1, Lit("main")>>,
        <<Lit("@override")>>,
        <<Lit("@component")>>,
        <<Lit("@service")>> >> >>,
      <<"cpp", <<
        <<Lit("#include"), WS0, Lit("<"), ANY, Lit(">")>>,
        <<Lit("#include"), WS0, Lit("\""), ANY, Lit("\"")>>,
        <<Lit("using"), WS1, Lit("namespace"), WS1, WORD>>,
        <<Lit("class"), WS1, WORD, WS0, Lit("{")>>,
        <<Lit("int"), WS1, Lit("main"), WS0, Lit("(")>>,
        <<Lit("std::")>> >> >>,
      <<"rust", <<
        <<Lit("use"), WS1, WORD>>,
        <<Lit("fn"), WS1, WORD, WS0, Lit("(")>>,
        <<Lit("struct"), WS1, WORD>>,
        <<Lit("impl"), WS1, WORD>>,
        <<Lit("let"), WS1, WORD, WS0, Lit("=")>>,
        <<Lit("match"), WS1, WORD>> >> >>,
      <<"go", <<
        <<Lit("package"), WS1, WORD>>,
        <<Lit("import"), WS1, Lit("(")>>,
        <<Lit("func"), WS1, WORD, WS0, Lit("(")>>,
        <<Lit("type"), WS1, WORD, WS1, Lit("struct")>>,
        <<Lit("interface"), WS1, WORD>>,
        <<Lit("var"), WS1, WORD, WS0, Lit("=")>> >> >> >>

(***************************************************************************)
(* The local storage that the detector and the crawler walk.  A node is    *)
(* named by its path below the root, a sequence of names.  stat is "ok",   *)
(* "ENOENT" (a symbolic link to nothing) or "EACCES" (an item of a         *)
(* directory without search permission); listable says that the entries of *)
(* a directory can be read, readable that open() succeeds.                 *)
(***************************************************************************)
OnDisk(kind, suffix, size, bytes, stat, readable, listable) ==
    [kind |-> kind, suffix |-> suffix, size |-> size, bytes |-> bytes,
     stat |-> stat, readable |-> readable, listable |-> listable]
RegularFile(suffix, size, bytes) == OnDisk("file", suffix, size, bytes, "ok", TRUE, FALSE)
Directory == OnDisk("directory", "", 0, << >>, "ok", FALSE, TRUE)

\* if __name__ == "__main__":
HeadGuard == <<"IF", SP, "__name__", SP, "==", SP, "\"", "__main__", "\"", ":", NL>>
\* function main() {
HeadJsMain == <<"function", SP, "main", "(", ")", SP, "{", NL>>
\* import os
HeadImport == <<"import", SP, "os", NL>>
\* DEF Main():
HeadDefMain == <<"DEF", SP, "Main", "(", ")", ":", NL>>
\* hello world
HeadPlain == <<"hello", SP, "world", NL>>
\* a comment line of 1100 letters a, and one of 600 letters e with an acute
\* accent, which UTF-8 encodes in two bytes each
PadAscii == "<1100 x a>"
PadWide == "<600 x e-acute>"
\* a main function behind 1100 bytes, and one behind 600 characters that
\* take 1200 bytes
HeadLong == <<PadAscii, NL>> \o HeadDefMain
HeadWide == <<PadWide, NL>> \o HeadDefMain

Repos ==
    [p1 |-> [root |-> <<"/", "srv", "p1">>,
             nodes |-> (<<"main.py">> :> RegularFile(".py", 40, HeadGuard))
                    @@ (<<"util.PY">> :> RegularFile(".PY", 25, HeadJsMain))
                    @@ (<<"run">> :> RegularFile("", 12, HeadJsMain))
                    @@ (<<"node_modules">> :> Directory)
                    @@ (<<"node_modules", "index.js">> :> RegularFile(".js", 300, HeadJsMain))
                    @@ (<<"cache.pyc">> :> RegularFile(".pyc", 7, <<NUL, "main">>))],
     p2 |-> [root |-> <<"/", "home", "build", "p2">>,
             nodes |-> (<<"tool.py">> :> RegularFile(".py", 30, HeadGuard))
                    @@ (<<"README.md">> :> RegularFile(".md", 5, HeadPlain))],
     p3 |-> [root |-> <<"/", "srv", "p3">>,
             nodes |-> (<<"a.py">> :> RegularFile(".py", 10, HeadPlain))
                    @@ (<<"b.Js">> :> RegularFile(".Js", 20, HeadGuard))
                    @@ (<<"notes">> :> RegularFile("", 3, HeadPlain))
                    @@ (<<"big.sql">> :> RegularFile(".sql", 20000000, HeadPlain))],
     p4 |-> [root |-> <<"/", "srv", "p4">>,
             nodes |-> (<<"top.py">> :> RegularFile(".py", 4, HeadDefMain))
                    @@ (<<"data">> :> Directory)
                    @@ (<<"data", "x.py">> :>
                            OnDisk("file", ".py", 6, HeadPlain, "EACCES", FALSE, FALSE))
                    @@ (<<"dangling.py">> :>
                            OnDisk("file", ".py", 0, << >>, "ENOENT", FALSE, FALSE))
                    @@ (<<"locked">> :>
                            OnDisk("directory", "", 0, << >>, "ok", FALSE, FALSE))
                    @@ (<<"locked", "in.py">> :> RegularFile(".py", 2, HeadGuard))],
     p5 |-> [root |-> <<"/", "srv", "p5">>,
             nodes |-> (<<"notes">> :> RegularFile("", 3, HeadImport))
                    @@ (<<"env">> :> Directory)
                    @@ (<<"env", "main.py">> :> RegularFile(".py", 8, HeadDefMain))
                    @@ (<<"long.txt">> :> RegularFile(".txt", 1113, HeadLong))
                    @@ (<<"wide.txt">> :> RegularFile(".txt", 1213, HeadWide))],
     p6 |-> [root |-> <<"/", "srv", "p6">>,
             nodes |-> (<<"tool.py">> :> RegularFile(".py", 30, HeadGuard))
                    @@ (<<"README.md">> :> RegularFile(".md", 5, HeadPlain))]]

RepoNames == DOMAIN Repos
\* a repository path that does not exist
MissingRepo == "none"

Nodes(repo) == Repos[repo].nodes
Name(rel) == rel[Len(rel)]
Parts(repo, rel) == Repos[repo].root \o rel
Parent(rel) == SubSeq(rel, 1, Len(rel) - 1)
IsBelow(rel, dir) == Len(rel) > Len(dir) /\ SubSeq(rel, 1, Len(dir)) = dir

\* the entries of a directory, as iterdir() and rglob() read them
Entries(repo, dir) == {rel \in DOMAIN Nodes(repo) : Parent(rel) = dir}
CanList(repo, dir) == dir = << >> \/ Nodes(repo)[dir].listable

\* current_path.rglob('*'): everything below dir that is reached through
\* directories whose entries can be read
RglobAll(repo, dir) ==
    {rel \in DOMAIN Nodes(repo) :
        /\ IsBelow(rel, dir)
        /\ \A k \in Len(dir)..(Len(rel) - 1) : CanList(repo, SubSeq(rel, 1, k))}

\* Path.is_file(), Path.is_dir(): "raise" when stat fails with an error
\* that pathlib does not take for an absent path
is_file(node) ==
    CASE node.stat = "EACCES" -> "raise"
      [] node.stat = "ENOENT" -> "false"
      [] OTHER -> IF node.kind = "file" THEN "true" ELSE "false"
is_dir(node) ==
    CASE node.stat = "EACCES" -> "raise"
      [] node.stat = "ENOENT" -> "false"
      [] OTHER -> IF node.kind = "directory" THEN "true" ELSE "false"

(***************************************************************************)
(* LanguageDetector: classification of one file and of a repository.       *)
(***************************************************************************)
Max(S) == CHOOSE x \in S : \A y \in S : x >= y

\* the length of a token in characters or in bytes; the tokens of the
\* catalogue are short, and no more than 16 of either
Width(t, unit) ==
    CASE t = PadAscii -> 1100
      [] t = PadWide -> IF unit = "bytes" THEN 1200 ELSE 600
      [] OTHER -> 16

RECURSIVE TotalWidth(_, _, _)
TotalWidth(toks, k, unit) ==
    IF k = 0 THEN 0 ELSE Width(toks[k], unit) + TotalWidth(toks, k - 1, unit)

\* the tokens that lie in the first limit characters, or bytes
FirstUnits(toks, limit, unit) ==
    SubSeq(toks, 1, Max({k \in 0..Len(toks) : TotalWidth(toks, k, unit) <= limit}))

\* open(file_path, 'r', errors='ignore').read(1024): 1024 characters
ReadHead(node) == FirstUnits(Decode(node.bytes), 1024, "chars")

TableIndex(ext) == {n \in 1..Len(EXTENSION_MAP) : EXTENSION_MAP[n][1] = ext}

\* for language, patterns in LANGUAGE_PATTERNS.items(): for pattern in
\* patterns: if re.search(...): return language
DetectByContent(node) ==
    LET hit == {n \in 1..Len(LANGUAGE_PATTERNS) :
                    \E m \in 1..Len(LANGUAGE_PATTERNS[n][2]) :
                        Search(LANGUAGE_PATTERNS[n][2][m], ReadHead(node))}
    IN  IF ~node.readable \/ hit = {} THEN None
        ELSE LANGUAGE_PATTERNS[Min(hit)][1]

\* a classification that tries the content signatures before the extension
DetectContentFirst(node) ==
    IF DetectByContent(node) # None THEN DetectByContent(node)
    ELSE IF TableIndex(FoldCase(node.suffix)) # {}
    THEN EXTENSION_MAP[Min(TableIndex(FoldCase(node.suffix)))][2]
    ELSE None

_detect_file_language(node) ==
    LET extension == FoldCase(node.suffix)
    IN  IF TableIndex(extension) # {}
        THEN EXTENSION_MAP[Min(TableIndex(extension))][2]
        ELSE DetectByContent(node)

exclude_dirs ==
    {".git", "node_modules", "__pycache__", ".pytest_cache", "venv", "env", ".venv",
     ".env", "build", "dist", "target", ".cargo", ".idea", ".vscode", ".vs",
     "coverage", ".coverage", "htmlcov", ".tox", "site-packages", ".mypy_cache",
     ".ruff_cache"}

\* open(file_path, 'rb').read(1024): 1024 bytes
_is_binary_file(node) ==
    ~node.readable \/ NUL \in Range(FirstUnits(node.bytes, 1024, "bytes"))

\* LanguageDetector._get_code_files: the files that pass the three tests;
\* is_file() on an item whose stat fails raises out of the loop
Kept(repo) ==
    {rel \in RglobAll(repo, << >>) :
        /\ is_file(Nodes(repo)[rel]) = "true"
        /\ Range(Parts(repo, rel)) \cap exclude_dirs = {}
        /\ ~_is_binary_file(Nodes(repo)[rel])
        /\ Nodes(repo)[rel].size <= 10 * 1024 * 1024}
ListingRaises(repo) == \E rel \in RglobAll(repo, << >>) : is_file(Nodes(repo)[rel]) = "raise"

\* the orders in which rglob may hand out the kept files
LanguageDetector_get_code_files(repo) == Perms(Kept(repo))

\* self.file_counts[language] = self.file_counts.get(language, 0) + 1, on a
\* dict that keeps the order of first insertion
Bump(file_counts, lang) ==
    IF \E n \in 1..Len(file_counts) : file_counts[n][1] = lang
    THEN [n \in 1..Len(file_counts) |->
            IF file_counts[n][1] = lang THEN <<lang, file_counts[n][2] + 1>>
            ELSE file_counts[n]]
    ELSE Append(file_counts, <<lang, 1>>)

RECURSIVE CountFiles(_, _, _, _)
CountFiles(file_counts, repo, order, k) ==
    IF k > Len(order) THEN file_counts
    ELSE LET lang == _detect_file_language(Nodes(repo)[order[k]])
         IN  CountFiles(IF lang # None THEN Bump(file_counts, lang) ELSE file_counts,
                        repo, order, k + 1)

\* a sort that puts an item before the items of the same count
InsertBeforeTies(sorted, item) ==
    LET before == {n \in 1..Len(sorted) : sorted[n][2] > item[2]}
    IN  SubSeq(sorted, 1, Cardinality(before)) \o <<item>>
            \o SubSeq(sorted, Cardinality(before) + 1, Len(sorted))

\* sorted(..., key=count, reverse=True) is stable: an item goes behind the
\* items of the same or a higher count that came before it
InsertSorted(sorted, item) ==
    LET before == {n \in 1..Len(sorted) : sorted[n][2] >= item[2]}
    IN  SubSeq(sorted, 1, Cardinality(before)) \o <<item>>
            \o SubSeq(sorted, Cardinality(before) + 1, Len(sorted))

RECURSIVE SortedByCount(_, _)
SortedByCount(file_counts, k) ==
    IF k = 0 THEN << >>
    ELSE InsertSorted(SortedByCount(file_counts, k - 1), file_counts[k])

_get_primary_language(file_counts) ==
    IF file_counts = << >> THEN "unknown"
    ELSE SortedByCount(file_counts, Len(file_counts))[1][1]

RECURSIVE Sum(_, _)
Sum(file_counts, k) == IF k = 0 THEN 0 ELSE file_counts[k][2] + Sum(file_counts, k - 1)

\* a quotient of two counts
Quotient(num, den) == [num |-> num, den |-> den]

_calculate_confidence(file_counts) ==
    IF file_counts = << >> THEN Quotient(0, 1)
    ELSE Quotient(Max({file_counts[n][2] : n \in 1..Len(file_counts)}),
                  Sum(file_counts, Len(file_counts)))

\* a detector that keeps the counts of the call before
KeepCounts(file_counts) == file_counts

\* self.file_counts.clear()
ClearCounts(file_counts) == << >>

Raised(error) == [raised |-> TRUE, error |-> error]

\* detect_languages_in_repo on a detector whose counts are file_counts, with
\* the files handed out in the given order; the counts it leaves, the result
detect_languages_in_repo(file_counts, repo, order) ==
    IF repo \notin RepoNames
    THEN [file_counts |-> file_counts, result |-> Raised("ValueError")]
    ELSE IF ListingRaises(repo)
    THEN [file_counts |-> ClearCounts(file_counts), result |-> Raised("PermissionError")]
    ELSE LET counts == CountFiles(ClearCounts(file_counts), repo, order, 1)
         IN  [file_counts |-> counts,
              result |-> [raised |-> FALSE,
                          primary_language |-> _get_primary_language(counts),
                          detected_languages |-> {counts[n][1] : n \in 1..Len(counts)},
                          file_counts |-> counts,
                          total_files |-> Sum(counts, Len(counts)),
                          confidence |-> _calculate_confidence(counts)]]

(***************************************************************************)
(* SpecDetect: calls on one LanguageDetector.                              *)
(***************************************************************************)
HistoryCall(op, repo, arg, result) == [op |-> op, repo |-> repo, arg |-> arg, result |-> result]

InitDetect ==
    /\ parsers = {}
    /\ pc = "detector"
    /\ repo_path = None /\ language = None /\ entry_points = << >>
    /\ ep_idx = 1 /\ code_files = << >> /\ cf_idx = 1
    /\ elements = EmptyMap /\ relationships = << >> /\ graph = EmptyGraph
    /\ ccg = NoCCG /\ calls = << >>
    /\ query = << >> /\ results = << >>
    /\ detector = << >> /\ history = << >> /\ heap = << >>
    /\ InitService

\* detector.detect_languages_in_repo(repo_path)
DetectLanguagesInRepo ==
    /\ pc = "detector"
    /\ Len(history) < MaxDetects
    /\ \E repo \in RepoNames \cup {MissingRepo} :
        \E order \in (IF repo \in RepoNames /\ ~ListingRaises(repo)
                      THEN LanguageDetector_get_code_files(repo) ELSE {<< >>}) :
            LET out == detect_languages_in_repo(detector, repo, order)
            IN  /\ detector' = out.file_counts
                /\ history' = Append(history,
                        HistoryCall("detect_languages_in_repo", repo, order, out.result))
    /\ UNCHANGED <<AnalyzerVars, heap, ServiceVars>>

\* detector._detect_file_language(file_path)
DetectFileLanguage ==
    /\ pc = "detector"
    /\ Len(history) < MaxDetects
    /\ \E repo \in RepoNames :
        \E rel \in DOMAIN Nodes(repo) :
            /\ Nodes(repo)[rel].kind = "file"
            /\ history' = Append(history,
                    HistoryCall("_detect_file_language", repo, rel,
                                _detect_file_language(Nodes(repo)[rel])))
    /\ UNCHANGED detector
    /\ UNCHANGED <<AnalyzerVars, heap, ServiceVars>>

NextDetect == DetectLanguagesInRepo \/ DetectFileLanguage

SpecDetect == InitDetect /\ [][NextDetect]_vars

(***************************************************************************)
(* RepoMapper: the ignore rule, the FileNode tree and the entry points.    *)
(***************************************************************************)
\* self.ignore_patterns: the literal patterns, and the wildcard patterns
\* without their star (pattern[1:])
ignore_patterns ==
    [literal |-> {".git", "node_modules", "__pycache__", ".pytest_cache", "venv", "env",
                  ".venv", ".env", "build", "dist", "target", ".cargo", ".idea",
                  ".vscode", ".vs", "coverage", ".coverage", "htmlcov", ".tox",
                  "site-packages", ".mypy_cache", ".ruff_cache", ".gitignore",
                  ".dockerignore", ".DS_Store", "Thumbs.db"},
     wildcard |-> {".pyc", ".pyo", ".pyd"}]

\* str(path).endswith(ext), for ext that begins with a dot
EndsWith(repo, rel, ext) == Nodes(repo)[rel].suffix = ext \/ Name(rel) = ext

\* _should_ignore(path), where path is the root's path followed by rel
_should_ignore(repo, rel) ==
    \/ \E ext \in ignore_patterns.wildcard : EndsWith(repo, rel, ext)
    \/ \E pattern \in ignore_patterns.literal :
        pattern \in Range(Parts(repo, rel)) \/ Name(rel) = pattern

\* str(current_path.relative_to(root_path))
RECURSIVE JoinPath(_)
JoinPath(rel) ==
    IF rel = << >> THEN "."
    ELSE IF Len(rel) = 1 THEN rel[1]
    ELSE JoinPath(Parent(rel)) \o "/" \o Name(rel)

\* the order of the names under sorted()
NameOrder ==
    <<"README.md", "a.py", "b.Js", "big.sql", "cache.pyc", "dangling.py", "data", "env",
      "in.py", "index.js", "locked", "long.txt", "main.py", "node_modules", "notes",
      "run", "tool.py", "top.py", "util.PY", "wide.txt", "x.py">>
Rank(name) == CHOOSE n \in 1..Len(NameOrder) : NameOrder[n] = name

\* sorted(items), for items of one directory
SortByName(items) ==
    CHOOSE order \in Perms(items) :
        \A i, j \in 1..Len(order) : i < j => Rank(Name(order[i])) < Rank(Name(order[j]))

RECURSIVE SumSizes(_, _)
SumSizes(repo, files) ==
    IF files = {} THEN 0
    ELSE LET f == CHOOSE x \in files : TRUE
         IN  Nodes(repo)[f].size + SumSizes(repo, files \ {f})

\* the sum over rglob('*') inside try: an is_file() that raises makes it 0
DirectorySize(repo, dir) ==
    IF \E rel \in RglobAll(repo, dir) : is_file(Nodes(repo)[rel]) = "raise" THEN 0
    ELSE SumSizes(repo, {rel \in RglobAll(repo, dir) : is_file(Nodes(repo)[rel]) = "true"})

\* current_path.stat().st_size inside try
FileSize(node) == IF node.stat = "ok" THEN node.size ELSE 0

\* Optional[List[FileNode]]: no list, or one list
NoChildren == << >>
Children(list) == <<list>>

FileNode(name, path, type, size, lang, children) ==
    [name |-> name, path |-> path, type |-> type, size |-> size, language |-> lang,
     children |-> children]

\* an except clause that also takes what the children raised
ChildrenOrNone(listable, built) ==
    IF ~listable \/ \E k \in 1..Len(built) : "raised" \in DOMAIN built[k] THEN NoChildren
    ELSE Children(built)

\* _build_tree_node(root_path, current_path): the node, or the
\* PermissionError that current_path.is_dir() raised
RECURSIVE _build_tree_node(_, _)
_build_tree_node(repo, rel) ==
    LET current == IF rel = << >> THEN Directory ELSE Nodes(repo)[rel]
        name == IF rel = << >> THEN Name(Repos[repo].root) ELSE Name(rel)
    IN  IF is_dir(current) = "raise" THEN Raised("PermissionError")
        ELSE IF is_dir(current) = "false"
        THEN FileNode(name, JoinPath(rel), "file", FileSize(current),
                      IF current.suffix # "" THEN _detect_file_language(current) ELSE None,
                      NoChildren)
        ELSE LET items == SortByName({item \in Entries(repo, rel) :
                                            ~_should_ignore(repo, item)})
                 built == [k \in 1..Len(items) |-> _build_tree_node(repo, items[k])]
             IN  FileNode(name, JoinPath(rel), "directory", DirectorySize(repo, rel), None,
                          ChildrenOrNone(CanList(repo, rel), built))

_generate_file_tree(repo) == _build_tree_node(repo, << >>)

entry_patterns(lang) ==
    CASE lang = "python" -> <<"main.py", "app.py", "run.py", "__main__.py", "setup.py">>
      [] lang = "jac" -> <<"main.jac", "app.jac", "run.jac">>
      [] lang = "javascript" -> <<"index.js", "app.js", "main.js", "server.js", "package.json">>
      [] lang = "java" -> <<"Main.java", "App.java", "Application.java">>
      [] lang = "cpp" -> <<"main.cpp", "app.cpp", "main.c">>
      [] lang = "rust" -> <<"main.rs", "lib.rs", "Cargo.toml">>
      [] lang = "go" -> <<"main.go", "app.go", "go.mod">>
      [] OTHER -> << >>

main_patterns(lang) ==
    CASE lang = "python" ->
            << <<Lit("if"), WS1, Lit("__name__"), WS0, Lit("=="), WS0, QUOTE,
                 Lit("__main__"), QUOTE>>,
               <<Lit("def"), WS1, Lit("main"), WS0, Lit("(")>> >>
      [] lang = "javascript" ->
            << <<Lit("function"), WS1, Lit("main"), WS0, Lit("(")>>,
               <<Lit("module.exports"), WS0, Lit("=")>>,
               <<Lit("export"), WS1, Lit("default")>> >>
      [] lang = "java" ->
            << <<Lit("public"), WS1, Lit("static"), WS1, Lit("void"), WS1, Lit("main"),
                 WS0, Lit("(")>> >>
      [] lang = "cpp" -> << <<Lit("int"), WS1, Lit("main"), WS0, Lit("(")>> >>
      [] lang = "rust" -> << <<Lit("fn"), WS1, Lit("main"), WS0, Lit("(")>> >>
      [] lang = "go" -> << <<Lit("func"), WS1, Lit("main"), WS0, Lit("(")>> >>
      [] OTHER -> << >>

\* a list of the members of a set, in some fixed order
SeqOf(S) == CHOOSE order \in Perms(S) : TRUE

\* if file_path.is_file() and not self._should_ignore(file_path)
Candidate(repo, rel) == is_file(Nodes(repo)[rel]) = "true" /\ ~_should_ignore(repo, rel)

\* _find_main_functions: the relative paths of the files whose first 1 KB
\* matches, or the PermissionError that is_file() raised
_find_main_functions(repo, lang) ==
    IF main_patterns(lang) = << >> THEN [raised |-> FALSE, files |-> << >>]
    ELSE IF \E rel \in RglobAll(repo, << >>) : is_file(Nodes(repo)[rel]) = "raise"
    THEN Raised("PermissionError")
    ELSE [raised |-> FALSE,
          files |-> SeqOf({JoinPath(rel) : rel \in {r \in RglobAll(repo, << >>) :
                        /\ Candidate(repo, r)
                        /\ Nodes(repo)[r].readable
                        /\ \E n \in 1..Len(main_patterns(lang)) :
                                Search(main_patterns(lang)[n], ReadHead(Nodes(repo)[r]))}})]

\* list(set(entry_points)): the members once, in an order that the hashes give
ListOfSet(list) == Perms(Range(list))

\* _find_entry_points: the lists that it can return
_find_entry_points(repo, primary_language) ==
    LET named == {rel \in RglobAll(repo, << >>) :
                    Name(rel) \in Range(entry_patterns(primary_language))}
        found == SeqOf({JoinPath(rel) : rel \in {r \in named :
                                                    is_file(Nodes(repo)[r]) = "true"}})
        main == IF primary_language \in {"python", "javascript", "java", "cpp", "rust", "go"}
                THEN _find_main_functions(repo, primary_language)
                ELSE [raised |-> FALSE, files |-> << >>]
    IN  IF \E rel \in named : is_file(Nodes(repo)[rel]) = "raise"
        THEN {Raised("PermissionError")}
        ELSE IF main.raised THEN {main}
        ELSE {[raised |-> FALSE, list |-> l] : l \in ListOfSet(found \o main.files)}

(***************************************************************************)
(* SpecCrawl: calls on one RepoMapper.                                     *)
(***************************************************************************)
PrimaryLanguages == {"python", "javascript", "jac", "unknown"}

InitCrawl ==
    /\ parsers = {}
    /\ pc = "crawler"
    /\ repo_path = None /\ language = None /\ entry_points = << >>
    /\ ep_idx = 1 /\ code_files = << >> /\ cf_idx = 1
    /\ elements = EmptyMap /\ relationships = << >> /\ graph = EmptyGraph
    /\ ccg = NoCCG /\ calls = << >>
    /\ query = << >> /\ results = << >>
    /\ detector = << >> /\ history = << >> /\ heap = << >>
    /\ InitService

\* mapper._generate_file_tree(local_path)
GenerateFileTree ==
    /\ pc = "crawler"
    /\ Len(history) < MaxCrawls
    /\ \E repo \in RepoNames :
        history' = Append(history,
            HistoryCall("_generate_file_tree", repo, None, _generate_file_tree(repo)))
    /\ UNCHANGED detector
    /\ UNCHANGED <<AnalyzerVars, heap, ServiceVars>>

\* mapper._find_entry_points(local_path, primary_language)
FindEntryPoints ==
    /\ pc = "crawler"
    /\ Len(history) < MaxCrawls
    /\ \E repo \in RepoNames, lang \in PrimaryLanguages :
        \E out \in _find_entry_points(repo, lang) :
            history' = Append(history, HistoryCall("_find_entry_points", repo, lang, out))
    /\ UNCHANGED detector
    /\ UNCHANGED <<AnalyzerVars, heap, ServiceVars>>

NextCrawl == GenerateFileTree \/ FindEntryPoints

SpecCrawl == InitCrawl /\ [][NextCrawl]_vars

(***************************************************************************)
(* SpecRuns: several analyze_codebase and query_relationships calls on one *)
(* CodeAnalyzer, with the identity of the objects that a CCG is made of.   *)
(* heap[id] is the object with identity id; a CCG holds three identities.  *)
(***************************************************************************)
Object(kind, value) == [kind |-> kind, value |-> value]

\* a container that the analyzer keeps from one run to the next
KeptContainer(h, kind) ==
    IF \E id \in 1..Len(h) : h[id].kind = kind
    THEN Min({id \in 1..Len(h) : h[id].kind = kind})
    ELSE Len(h) + 1

\* elements = {}, relationships = [], graph = nx.DiGraph(): a new object
NewContainer(h, kind) == Len(h) + 1

\* what the run has written into the container by the time it returns
Store(h, id, object) == IF id > Len(h) THEN Append(h, object) ELSE [h EXCEPT ![id] = object]

\* the files that one run analyses, in the order of analysis
FilesToAnalyse(root, eps, files) ==
    SelectSeq(eps, LAMBDA e : Exists(PathJoin(root, e)))
        \o SelectSeq(files, LAMBDA f : RelativeTo(PathJoin(root, f), root) \notin Range(eps))

\* elements.update(file_elements); relationships.extend(file_relationships)
MergeFile(before, res) ==
    [elements |-> Merge(before.elements, res.elements),
     relationships |-> Extend(before.relationships, res.relationships)]

\* the two loops over the files; each file is analysed once
RECURSIVE MergeFiles(_, _, _, _)
MergeFiles(root, lang, list, k) ==
    IF k = 0 THEN [elements |-> EmptyMap, relationships |-> << >>]
    ELSE CHOOSE merged \in
            {MergeFile(before, res) :
                before \in {MergeFiles(root, lang, list, k - 1)},
                res \in {_analyze_file(PathJoin(root, list[k]), lang, root)}} : TRUE

\* the three objects of a run and the CodeContextGraph that names them
NewCCG(h, merged) ==
    LET e == NewContainer(h, "dict")
        h1 == Store(h, e, Object("dict", merged.elements))
        r == NewContainer(h1, "list")
        h2 == Store(h1, r, Object("list", merged.relationships))
        g == NewContainer(h2, "graph")
        h3 == Store(h2, g, Object("graph",
                                  build_graph(merged.elements, merged.relationships)))
    IN  [heap |-> h3,
         result |-> [raised |-> FALSE, ccg |-> CodeContextGraph(e, r, g)]]

\* one whole analyze_codebase call: the heap after it and what it returned,
\* a CodeContextGraph of three object identities
analyze_codebase(h, root, lang, eps, files) ==
    IF \E e \in Range(eps) : StatRaises(PathJoin(root, e))
    THEN [heap |-> h, result |-> Raised("PermissionError")]
    ELSE CHOOSE out \in
            {NewCCG(h, merged) :
                merged \in {MergeFiles(root, lang, FilesToAnalyse(root, eps, files),
                                       Len(FilesToAnalyse(root, eps, files)))}} : TRUE

\* the CCG that the identities stand for
Deref(h, c) ==
    CodeContextGraph(h[c.elements].value, h[c.relationships].value, h[c.graph].value)

RunRoots == {"/srv/r1", "/tmp/r2", "/tmp/r3"}

InitRuns ==
    /\ parsers \in {_initialize_parsers(0), _initialize_parsers(Len(ParserOrder))}
    /\ pc = "analyzer"
    /\ repo_path = None /\ language = None /\ entry_points = << >>
    /\ ep_idx = 1 /\ code_files = << >> /\ cf_idx = 1
    /\ elements = EmptyMap /\ relationships = << >> /\ graph = EmptyGraph
    /\ ccg = NoCCG /\ calls = << >>
    /\ query = << >> /\ results = << >>
    /\ detector = << >> /\ history = << >> /\ heap = << >>
    /\ InitService

\* analyzer.analyze_codebase(repo_path, 'python', entry_points); the history
\* keeps the CCG as it was when the call returned
AnalyzeCodebase ==
    /\ pc = "analyzer"
    /\ Len(history) < MaxRuns
    /\ \E root \in RunRoots :
        \E eps \in SeqsUpTo(FilesOf(root) \cup {MissingFile}, MaxRunEntryPoints),
           files \in _get_code_files(root, "python") :
            \E out \in {analyze_codebase(heap, root, "python", eps, files)} :
                /\ heap' = out.heap
                /\ history' = Append(history,
                        HistoryCall("analyze_codebase", root, eps,
                            IF out.result.raised THEN out.result
                            ELSE [raised |-> FALSE, ccg |-> out.result.ccg,
                                  returned |-> Deref(out.heap, out.result.ccg)]))
    /\ UNCHANGED <<parsers, pc, repo_path, language, entry_points, ep_idx, code_files,
                   cf_idx, elements, relationships, graph, ccg, calls, query, results,
                   detector, ServiceVars>>

\* analyzer.query_relationships(ccg, query) on a CCG that a run returned
QueryReturned ==
    /\ pc = "analyzer"
    /\ \E k \in 1..Len(history), q \in Queries :
        /\ ~history[k].result.raised
        /\ query' = q
        /\ results' = query_relationships(Deref(heap, history[k].result.ccg), q)
    /\ UNCHANGED <<parsers, pc, repo_path, language, entry_points, ep_idx, code_files,
                   cf_idx, elements, relationships, graph, ccg, calls, detector,
                   history, heap, ServiceVars>>

NextRuns == AnalyzeCodebase \/ QueryReturned

SpecRuns == InitRuns /\ [][NextRuns]_vars

(***************************************************************************)
(* Properties of analyze_codebase.                                         *)
(***************************************************************************)
Keys(c) == DOMAIN c.elements

\* analyze_codebase has returned its CCG
Returned == pc \in {"done", "queried"}

\* what one file contributes, computed for the file alone
FileResult(rel) == _analyze_file(PathJoin(repo_path, rel), language, repo_path)

RECURSIVE Flatten(_, _)
Flatten(seqs, k) == IF k > Len(seqs) THEN << >> ELSE seqs[k] \o Flatten(seqs, k + 1)

Count(s, x) == Cardinality({k \in 1..Len(s) : s[k] = x})

\* C1: in every CCG that analyze_codebase returns, the nodes of the graph
\* view are exactly the keys of the element mapping and both endpoints of
\* every edge are keys; hence a relationship with an endpoint that is not a
\* key has added neither a node nor an edge.
C1_GraphWithinElements ==
    Returned =>
        /\ DOMAIN ccg.graph.nodes = Keys(ccg)
        /\ \A e \in DOMAIN ccg.graph.edges : e[1] \in Keys(ccg) /\ e[2] \in Keys(ccg)
        /\ \A k \in 1..Len(ccg.relationships) :
            LET r == ccg.relationships[k]
            IN  /\ r[1] \notin Keys(ccg) => r[1] \notin DOMAIN ccg.graph.nodes
                /\ r[2] \notin Keys(ccg) => r[2] \notin DOMAIN ccg.graph.nodes
                /\ (r[1] \notin Keys(ccg) \/ r[2] \notin Keys(ccg)) =>
                        <<r[1], r[2]>> \notin DOMAIN ccg.graph.edges

\* a returned CCG of two analysed files whose graph view has edges
C1_Witness ==
    /\ pc = "done"
    /\ Len(calls) >= 2
    /\ Cardinality(DOMAIN ccg.graph.edges) >= 2
    /\ Cardinality(Keys(ccg)) >= 4

\* C2: the relationship sequence of the returned CCG is the relationships of
\* the existing entry-point files, in the order of entry_points, followed by
\* those of the other code files, each file's relationships in the order the
\* parser emitted them; so no relationship of an entry-point file comes after
\* one of a file that is not an entry point.
C2_EntryPointsFirst ==
    Returned =>
        LET entry == [k \in 1..Len(entry_points) |->
                        IF Exists(PathJoin(repo_path, entry_points[k]))
                        THEN FileResult(entry_points[k]).relationships ELSE << >>]
            rest == [k \in 1..Len(code_files) |->
                        IF code_files[k] \in Range(entry_points) THEN << >>
                        ELSE FileResult(code_files[k]).relationships]
            rels == ccg.relationships
            FileOf(r) == ccg.elements[r[1]].file_path
        IN  /\ rels = Flatten(entry, 1) \o Flatten(rest, 1)
            /\ \A i \in 1..Len(rels), j \in 1..Len(rels) :
                (FileOf(rels[i]) \in Range(entry_points)
                    /\ FileOf(rels[j]) \notin Range(entry_points)) => i < j

\* an entry-point file and a file that is not one both contributed
C2_Witness ==
    /\ pc = "done"
    /\ \E i \in 1..Len(ccg.relationships), j \in 1..Len(ccg.relationships) :
        /\ ccg.elements[ccg.relationships[i][1]].file_path \in Range(entry_points)
        /\ ccg.elements[ccg.relationships[j][1]].file_path \notin Range(entry_points)

\* the files of the target language under the repository root
CodeFileSet == UNION {Rglob(repo_path, Extensions(language)[k]) :
                        k \in 1..Len(Extensions(language))}

\* the elements of a set of files, whatever the order
ElementsOfFiles(S) ==
    [id \in UNION {DOMAIN FileResult(f).elements : f \in S} |->
        FileResult(CHOOSE f \in S : id \in DOMAIN FileResult(f).elements).elements[id]]

\* how often the files of a set contribute a relationship, whatever the order
RECURSIVE CountInFiles(_, _)
CountInFiles(S, r) ==
    IF S = {} THEN 0
    ELSE LET f == CHOOSE x \in S : TRUE
         IN  Count(FileResult(f).relationships, r) + CountInFiles(S \ {f}, r)

\* entry_points names files of the target language, each once
EntryPointsAmongFiles ==
    /\ Range(entry_points) \subseteq CodeFileSet
    /\ \A i \in 1..Len(entry_points), j \in 1..Len(entry_points) :
        entry_points[i] = entry_points[j] => i = j

\* C3: for the files of the target language under a root, the element
\* mapping and the multiset of relationships of the returned CCG are those of
\* the set of files, whatever the order in which the files were processed and
\* whichever of them are entry points.
C3_OrderIndependent ==
    (Returned /\ EntryPointsAmongFiles) =>
        /\ ccg.elements = ElementsOfFiles(CodeFileSet)
        /\ \A r \in Range(ccg.relationships) \cup
                    UNION {Range(FileResult(f).relationships) : f \in CodeFileSet} :
            Count(ccg.relationships, r) = CountInFiles(CodeFileSet, r)

\* two files with relationships, the second of the listing made an entry point
C3_Witness ==
    /\ Returned /\ EntryPointsAmongFiles
    /\ Len(code_files) = 2
    /\ entry_points = <<code_files[2]>>
    /\ \A k \in 1..2 : FileResult(code_files[k]).relationships # << >>

\* C5: an element of the merged mapping that came from one file is never
\* replaced or removed by the merge of another file: the merged entry under
\* each id of an analysed file belongs to that file and is the element that
\* the last analysis of that file produced, and the files' ids are disjoint.
C5_MergeKeepsOtherFiles ==
    \A k \in 1..Len(calls) :
        \A id \in DOMAIN calls[k].result.elements :
            /\ id \in DOMAIN elements
            /\ elements[id].file_path = calls[k].rel
            /\ (\A j \in (k + 1)..Len(calls) : calls[j].rel # calls[k].rel)
                    => elements[id] = calls[k].result.elements[id]
            /\ \A j \in 1..Len(calls) :
                calls[j].rel # calls[k].rel => id \notin DOMAIN calls[j].result.elements

\* two files that both declare Foo have been merged
C5_Witness ==
    /\ Len(calls) = 2
    /\ calls[1].rel # calls[2].rel
    /\ \A k \in 1..2 : \E id \in DOMAIN calls[k].result.elements :
        calls[k].result.elements[id].name = "Foo"

\* the nodes of a syntax tree
RECURSIVE NodesOf(_)
NodesOf(node) ==
    {node} \cup UNION {NodesOf(node.children[k]) : k \in 1..Len(node.children)}

\* the call analysed a readable file with the grammar-based strategy of a
\* language that has a traversal, and the traversal went through
GrammarBased(c) ==
    /\ Readable(PathJoin(c.repo_root, c.rel))
    /\ c.language \in parsers \cap {"python", "javascript", "java"}
    /\ ~Raises(ContentOf(PathJoin(c.repo_root, c.rel)), c.language)

TreeOf(c) == Parse(ContentOf(PathJoin(c.repo_root, c.rel)), c.language)

\* the function declarations that stand directly in the body of a class
DirectFunctions(lang, class) ==
    {g \in UNION {Range(b.children) :
                    b \in {x \in Range(class.children) : x.type = BodyType(lang)}} :
        g.type = FuncType(lang) /\ Truthy(_get_node_text(g, "identifier"))}

Declarations(lang, tree) ==
    {n \in NodesOf(tree) :
        \/ n.type \in {FuncType(lang), ClassType(lang)}
                /\ Truthy(_get_node_text(n, "identifier"))
        \/ n.type = ImportType(lang) /\ Truthy(_get_import_name(n))}

\* C4: within one run element ids are unique: the element mapping of a file
\* parsed with the grammar-based strategy holds one entry for each
\* declaration that the traversal discovered in the file, so that no
\* declaration is overwritten by another one.
C4_OneEntryPerDeclaration ==
    \A k \in 1..Len(calls) :
        GrammarBased(calls[k]) =>
            Cardinality(DOMAIN calls[k].result.elements)
                = Cardinality(Declarations(calls[k].language, TreeOf(calls[k])))

(***************************************************************************)
(* Properties of _analyze_file.                                            *)
(***************************************************************************)
\* C6: two analyses of the same content under the same repository-relative
\* path and language give the same element ids, each with the same
\* attributes, whatever the repository root is.
C6_SameInputSameIds ==
    \A i \in 1..Len(calls), j \in 1..Len(calls) :
        LET pi == PathJoin(calls[i].repo_root, calls[i].rel)
            pj == PathJoin(calls[j].repo_root, calls[j].rel)
        IN  (/\ Readable(pi) /\ Readable(pj)
             /\ ContentOf(pi) = ContentOf(pj)
             /\ calls[i].rel = calls[j].rel
             /\ calls[i].language = calls[j].language) =>
                /\ DOMAIN calls[i].result.elements = DOMAIN calls[j].result.elements
                /\ \A id \in DOMAIN calls[i].result.elements :
                    calls[i].result.elements[id] = calls[j].result.elements[id]

\* the same content analysed under two roots, with elements found
C6_Witness ==
    /\ pc = "file"
    /\ Len(calls) = 2
    /\ calls[1].repo_root # calls[2].repo_root
    /\ calls[1].rel = calls[2].rel
    /\ calls[1].language = calls[2].language
    /\ ContentOf(PathJoin(calls[1].repo_root, calls[1].rel))
            = ContentOf(PathJoin(calls[2].repo_root, calls[2].rel))
    /\ Cardinality(DOMAIN calls[1].result.elements) >= 2

\* the result of the regex strategy for the file of a call
RegexResult(c) ==
    _parse_with_regex(ContentOf(PathJoin(c.repo_root, c.rel)).toks, c.rel, c.language)

\* C8: for a file that can be read, _analyze_file returns the result of the
\* regex strategy when no parser is registered for the language, and exactly
\* that result when a parser is registered and the grammar-based parse or
\* traversal raises; no exception reaches the caller.
C8_RegexFallback ==
    \A k \in 1..Len(calls) :
        LET c == calls[k]
            path == PathJoin(c.repo_root, c.rel)
            fallback == \/ c.language \notin parsers
                        \/ c.language \in parsers /\ Raises(ContentOf(path), c.language)
        IN  /\ ~c.result.raised
            /\ (Readable(path) /\ fallback) => c.result = Result(RegexResult(c), FALSE)

\* a registered parser whose traversal raised, and the regex result came back
C8_Witness ==
    /\ pc = "file"
    /\ \E k \in 1..Len(calls) :
        /\ calls[k].language \in parsers
        /\ Raises(ContentOf(PathJoin(calls[k].repo_root, calls[k].rel)), calls[k].language)
        /\ calls[k].result.elements # EmptyMap
        /\ ~calls[k].result.raised

(***************************************************************************)
(* Properties of query_relationships.                                      *)
(***************************************************************************)
\* the letter in capital form
Capital(ch) == UpperCase[CHOOSE n \in 1..Len(LowerCase) : LowerCase[n] = ch]

\* the text holds the word, each letter in either case
HasWord(text, word) ==
    \E i \in 0..Len(text) :
        /\ i + Len(word) <= Len(text)
        /\ \A k \in 1..Len(word) : text[i + k] \in {word[k], Capital(word[k])}

WordCalls == <<"c", "a", "l", "l", "s">>
WordInherits == <<"i", "n", "h", "e", "r", "i", "t", "s">>

\* the relationships of one kind as records, in the order of the sequence
KindRecords(rels, kind) ==
    LET OfKind(r) == r[3] = kind
        sel == SelectSeq(rels, OfKind)
    IN  [k \in 1..Len(sel) |->
            [from |-> sel[k][1], to |-> sel[k][2], relationship |-> kind]]

\* C9: a query that holds "calls" in any letter case returns one record for
\* each calls relationship of the CCG, in the order of its relationship
\* sequence and with duplicates, and no record of another kind.
C9_CallsQuery ==
    (pc = "queried" /\ HasWord(query, WordCalls)) =>
        /\ results = KindRecords(ccg.relationships, "calls")
        /\ \A k \in 1..Len(results) : results[k].relationship = "calls"

\* a query in capitals on a CCG with a calls relationship and another one
C9_Witness ==
    /\ pc = "queried"
    /\ HasWord(query, WordCalls) /\ ~Contains(query, WordCalls)
    /\ Len(ccg.relationships) = 2
    /\ ccg.relationships[1][3] = "inherits"
    /\ Len(results) = 1

\* C10 as stated: every query that holds "inherits" in any letter case
\* returns all inherits relationships as records, and a query that holds
\* neither "calls" nor "inherits" returns an empty list.
C10_InheritsQueryAsStated ==
    pc = "queried" =>
        /\ HasWord(query, WordInherits) =>
                results = KindRecords(ccg.relationships, "inherits")
        /\ (~HasWord(query, WordCalls) /\ ~HasWord(query, WordInherits)) =>
                results = << >>

\* C10: a query that holds "inherits" in any letter case and does not hold
\* "calls" returns all inherits relationships as records; a query that holds
\* neither "calls" nor "inherits" returns an empty list.
C10_InheritsQuery ==
    pc = "queried" =>
        /\ (HasWord(query, WordInherits) /\ ~HasWord(query, WordCalls)) =>
                results = KindRecords(ccg.relationships, "inherits")
        /\ (~HasWord(query, WordCalls) /\ ~HasWord(query, WordInherits)) =>
                results = << >>

\* an inherits query on a CCG with an inherits relationship and another one
C10_Witness ==
    /\ pc = "queried"
    /\ HasWord(query, WordInherits) /\ ~HasWord(query, WordCalls)
    /\ Len(ccg.relationships) = 2
    /\ ccg.relationships[1][3] = "contains"
    /\ Len(results) = 1

(***************************************************************************)
(* Failures of single files, missing roots and binary files.               *)
(***************************************************************************)
\* the files that analyze_codebase has to analyse: the entry points that
\* exist and the files that _get_code_files listed
DueFiles ==
    {entry_points[k] : k \in {i \in 1..Len(entry_points) :
                                Exists(PathJoin(repo_path, entry_points[i]))}}
        \cup Range(code_files)

\* reading or parsing the file fails
FileFails(rel) ==
    LET path == PathJoin(repo_path, rel)
    IN  \/ ~Readable(path)
        \/ language \in parsers /\ Raises(ContentOf(path), language)

\* C11 as stated: a failure while reading or parsing one file never raises out of
\* analyze_codebase, and in the returned CCG every file that had to be
\* analysed has been analysed and has all the elements and relationships
\* that it gives when analysed alone.
C11_FileFailureIsolated ==
    /\ pc # "raised"
    /\ Returned =>
        /\ {calls[k].rel : k \in 1..Len(calls)} = DueFiles
        /\ \A f \in DueFiles :
            /\ \A id \in DOMAIN FileResult(f).elements :
                id \in Keys(ccg) /\ ccg.elements[id] = FileResult(f).elements[id]
            /\ \A r \in Range(FileResult(f).relationships) :
                Count(ccg.relationships, r) >= Count(FileResult(f).relationships, r)

\* C12 as stated: when the root path does not exist, analyze_codebase raises
\* an error and returns no CCG.
C12_MissingRootRaises ==
    repo_path = MissingRoot => ~Returned

\* the first 1 KB of the file holds a NUL byte
HasNul(root, rel) ==
    /\ Readable(PathJoin(root, rel))
    /\ NUL \in Range(ContentOf(PathJoin(root, rel)).toks)

\* C13 as stated: a file with a NUL byte in its first 1 KB is never in the
\* list of code files and is never passed to _analyze_file.
C13_BinaryNeverAnalysed ==
    /\ \A k \in 1..Len(code_files) : ~HasNul(repo_path, code_files[k])
    /\ \A k \in 1..Len(calls) : ~HasNul(calls[k].repo_root, calls[k].rel)

(***************************************************************************)
(* Properties of the LanguageDetector.                                     *)
(***************************************************************************)
\* the extension, compared without regard to letter case, is in the table
TableLanguages(suffix) ==
    {EXTENSION_MAP[n][2] : n \in {m \in 1..Len(EXTENSION_MAP) :
        \/ EXTENSION_MAP[m][1] = suffix
        \/ <<suffix, EXTENSION_MAP[m][1]>> \in {<<".PY", ".py">>, <<".Js", ".js">>}}}

\* the contents that a file may have
Contents == {HeadGuard, HeadJsMain, HeadImport, HeadDefMain, HeadPlain, << >>}

\* C14: a file whose extension is in the extension table, compared without
\* regard to letter case, gets the table's language whatever its content is
\* (a .py file is python for every content); only a file whose extension is
\* not in the table gets its language from the content signatures.
C14_ExtensionFirst ==
    \A k \in 1..Len(history) :
        history[k].op = "_detect_file_language" =>
            LET node == Nodes(history[k].repo)[history[k].arg]
            IN  /\ TableLanguages(node.suffix) # {} =>
                    /\ history[k].result \in TableLanguages(node.suffix)
                    /\ \A bytes \in Contents, readable \in BOOLEAN :
                        _detect_file_language(
                            [node EXCEPT !.bytes = bytes, !.readable = readable])
                                = history[k].result
                /\ FoldCase(node.suffix) = ".py" => history[k].result = "python"
                /\ TableLanguages(node.suffix) = {} =>
                    history[k].result = DetectByContent(node)

\* a .PY file with JavaScript content, and a file without extension
\* classified by its content
C14_Witness ==
    /\ Len(history) = 2
    /\ \A k \in 1..2 : history[k].op = "_detect_file_language"
    /\ Nodes(history[1].repo)[history[1].arg].suffix = ".PY"
    /\ DetectByContent(Nodes(history[1].repo)[history[1].arg]) = "javascript"
    /\ history[1].result = "python"
    /\ Nodes(history[2].repo)[history[2].arg].suffix = ""
    /\ history[2].result = "javascript"

\* the number of files of a call that are classified as lang
FilesOfLanguage(call, lang) ==
    {k \in 1..Len(call.arg) :
        _detect_file_language(Nodes(call.repo)[call.arg[k]]) = lang}

CountOf(result, lang) ==
    IF \E n \in 1..Len(result.file_counts) : result.file_counts[n][1] = lang
    THEN result.file_counts[CHOOSE n \in 1..Len(result.file_counts) :
                                result.file_counts[n][1] = lang][2]
    ELSE 0

\* C15: the counts of a detect_languages_in_repo result are those of the
\* files of this call alone; the primary language has the maximal count and,
\* among the languages of maximal count, is the one seen first; the
\* confidence is its count divided by the number of classified files; with
\* no classified file the primary language is 'unknown' and the confidence 0.
C15_PrimaryLanguage ==
    \A k \in 1..Len(history) :
        (history[k].op = "detect_languages_in_repo" /\ ~history[k].result.raised) =>
            LET r == history[k].result
                langs == {EXTENSION_MAP[n][2] : n \in 1..Len(EXTENSION_MAP)}
                            \cup {LANGUAGE_PATTERNS[n][1] : n \in 1..Len(LANGUAGE_PATTERNS)}
                seen == {l \in langs : FilesOfLanguage(history[k], l) # {}}
                total == Cardinality({i \in 1..Len(history[k].arg) :
                            _detect_file_language(Nodes(history[k].repo)[history[k].arg[i]])
                                # None})
            IN  /\ \A l \in langs : CountOf(r, l) = Cardinality(FilesOfLanguage(history[k], l))
                /\ r.total_files = total
                /\ seen = {} => /\ r.primary_language = "unknown"
                                /\ r.confidence.num = 0 /\ r.confidence.den # 0
                /\ seen # {} =>
                    /\ r.primary_language \in seen
                    /\ \A l \in seen :
                        \/ CountOf(r, l) < CountOf(r, r.primary_language)
                        \/ /\ CountOf(r, l) = CountOf(r, r.primary_language)
                           /\ Min(FilesOfLanguage(history[k], r.primary_language))
                                <= Min(FilesOfLanguage(history[k], l))
                    /\ r.confidence.den # 0
                    /\ r.confidence.num * total
                            = CountOf(r, r.primary_language) * r.confidence.den

\* after a call that counted python files, a call on a repository with one
\* python and one javascript file that saw the javascript file first
C15_Witness ==
    /\ Len(history) = 2
    /\ \A k \in 1..2 : history[k].op = "detect_languages_in_repo" /\ ~history[k].result.raised
    /\ history[1].result.file_counts = <<<<"python", 2>>, <<"javascript", 1>>>>
    /\ history[2].result.file_counts = <<<<"javascript", 1>>, <<"python", 1>>>>
    /\ history[2].result.primary_language = "javascript"

(***************************************************************************)
(* Properties of the RepoMapper.                                           *)
(***************************************************************************)
\* some segment of the item's path is a literal ignore pattern, or the
\* item's name ends with the suffix of a wildcard pattern
Ignored(repo, rel) ==
    \/ \E k \in 1..Len(Parts(repo, rel)) : Parts(repo, rel)[k] \in ignore_patterns.literal
    \/ Nodes(repo)[rel].suffix \in ignore_patterns.wildcard

\* the paths of the nodes of a FileNode tree
RECURSIVE TreeNodes(_)
TreeNodes(node) ==
    {node} \cup (IF node.children = NoChildren THEN {}
                 ELSE UNION {TreeNodes(node.children[1][k]) :
                                k \in 1..Len(node.children[1])})

\* the item that a node of the tree stands for
ItemOf(repo, node) ==
    IF node.path = "." THEN << >>
    ELSE CHOOSE rel \in DOMAIN Nodes(repo) : JoinPath(rel) = node.path

\* the items that are in no ignored item and in directories whose entries
\* can be read
Visible(repo) ==
    {rel \in DOMAIN Nodes(repo) :
        /\ \A k \in 1..Len(rel) : ~Ignored(repo, SubSeq(rel, 1, k))
        /\ \A k \in 1..(Len(rel) - 1) : CanList(repo, SubSeq(rel, 1, k))}

TreeCalls == {k \in 1..Len(history) : history[k].op = "_generate_file_tree"}

\* C16 as stated: the FileNode tree holds the root and exactly the items
\* that are not ignored, are below no ignored item and lie in directories
\* that can be read, where an item is ignored exactly when a segment of its
\* path is a literal ignore pattern or its name ends with a wildcard's suffix.
C16_TreeHoldsNonIgnored ==
    \A k \in TreeCalls :
        {n.path : n \in TreeNodes(history[k].result)}
            = {"."} \cup {JoinPath(rel) : rel \in Visible(history[k].repo)}

\* the files below dir that rglob reaches, with the size that can be read
ReadableSize(repo, rel) ==
    IF Nodes(repo)[rel].kind = "file" /\ Nodes(repo)[rel].stat = "ok"
    THEN Nodes(repo)[rel].size ELSE 0

\* C19 as stated: a file node has the file's byte length, a directory node
\* the sum of the byte lengths of the files below it, where a file whose
\* size cannot be read counts 0, in its own node and in the sums, and the
\* other files count as before.
C19_SizesAddUp ==
    \A k \in TreeCalls :
        \A n \in TreeNodes(history[k].result) :
            LET repo == history[k].repo
                rel == ItemOf(repo, n)
            IN  IF n.type = "file" THEN n.size = ReadableSize(repo, rel)
                ELSE n.size = SumSizes(repo, {f \in RglobAll(repo, rel) :
                                                ReadableSize(repo, f) > 0})

EntryPointCalls ==
    {k \in 1..Len(history) :
        history[k].op = "_find_entry_points" /\ ~history[k].result.raised}

\* the regular files whose name is in the language's filename list
NamedFiles(repo, lang) ==
    {rel \in RglobAll(repo, << >>) :
        /\ Nodes(repo)[rel].kind = "file" /\ Nodes(repo)[rel].stat = "ok"
        /\ \E n \in 1..Len(entry_patterns(lang)) : entry_patterns(lang)[n] = Name(rel)}

\* the files that are not ignored and have a main construct of the language
\* in what the given prefix of their content decodes to
MainFiles(repo, lang, unit) ==
    {rel \in RglobAll(repo, << >>) :
        /\ Nodes(repo)[rel].kind = "file" /\ Nodes(repo)[rel].stat = "ok"
        /\ Nodes(repo)[rel].readable
        /\ ~Ignored(repo, rel)
        /\ \E n \in 1..Len(main_patterns(lang)) :
            Search(main_patterns(lang)[n],
                   IF unit = "bytes"
                   THEN Decode(FirstUnits(Nodes(repo)[rel].bytes, 1024, "bytes"))
                   ELSE FirstUnits(Decode(Nodes(repo)[rel].bytes), 1024, "chars"))}

NoDuplicates(list) == \A i, j \in 1..Len(list) : list[i] = list[j] => i = j

\* C17 as stated: the list that _find_entry_points returns has no path twice,
\* and its paths are exactly those of the files named as the language's
\* filename list says and of the non-ignored files whose first 1 KB matches a
\* main-construct pattern of the language.
C17_EntryPointsAreUnion ==
    \A k \in EntryPointCalls :
        /\ NoDuplicates(history[k].result.list)
        /\ Range(history[k].result.list)
            = {JoinPath(rel) : rel \in NamedFiles(history[k].repo, history[k].arg)
                                    \cup MainFiles(history[k].repo, history[k].arg, "bytes")}

\* the repository's only file with the extension .py holds the __main__
\* guard in its first 1 KB
OnlyPythonFileHasGuard(repo, rel) ==
    /\ {f \in DOMAIN Nodes(repo) : FoldCase(Nodes(repo)[f].suffix) = ".py"} = {rel}
    /\ Nodes(repo)[rel].kind = "file" /\ Nodes(repo)[rel].readable
    /\ Decode(FirstUnits(Nodes(repo)[rel].bytes, 1024, "bytes")) = HeadGuard

\* C18 as stated: for primary language python, on a repository whose only
\* Python file holds the __main__ guard in its first 1 KB, _find_entry_points
\* returns a list with that file's relative path, wherever the root lies.
C18_GuardFileIsEntryPoint ==
    \A k \in 1..Len(history) :
        (history[k].op = "_find_entry_points" /\ history[k].arg = "python") =>
            \A rel \in DOMAIN Nodes(history[k].repo) :
                OnlyPythonFileHasGuard(history[k].repo, rel) =>
                    /\ ~history[k].result.raised
                    /\ JoinPath(rel) \in Range(history[k].result.list)

(***************************************************************************)
(* Properties of the objects of a CCG.                                     *)
(***************************************************************************)
ReturnedRuns == {k \in 1..Len(history) :
                    history[k].op = "analyze_codebase" /\ ~history[k].result.raised}

Identities(c) == {c.elements, c.relationships, c.graph}

\* C20: a CCG that analyze_codebase returned has, after every later
\* query_relationships and analyze_codebase call on the same analyzer, the
\* elements, relationships and graph that it had when it was returned, and
\* two returned CCGs have no object in common.
C20_ReturnedCCGKept ==
    /\ \A k \in ReturnedRuns :
        Deref(heap, history[k].result.ccg) = history[k].result.returned
    /\ \A j, k \in ReturnedRuns :
        j # k => Identities(history[j].result.ccg) \cap Identities(history[k].result.ccg) = {}

\* two runs on different repositories returned CCGs with different
\* elements, and a query on the first CCG came after the second run
C20_Witness ==
    /\ ReturnedRuns = {1, 2}
    /\ history[1].repo # history[2].repo
    /\ history[1].result.returned.elements # EmptyMap
    /\ history[2].result.returned.relationships # << >>
    /\ history[1].result.returned # history[2].result.returned
    /\ query # << >>
    /\ results = query_relationships(history[1].result.returned, query)

(***************************************************************************)
(* Properties of the contains relationships of one file.                   *)
(***************************************************************************)
\* the function and class declarations of a tree that have a name
Scopes(lang, tree) ==
    {n \in NodesOf(tree) :
        n.type \in {FuncType(lang), ClassType(lang)}
            /\ Truthy(_get_node_text(n, "identifier"))}

Encloses(outer, inner) == inner # outer /\ inner \in NodesOf(outer)

\* outer is the nearest declaration around inner
ImmediatelyEncloses(lang, tree, outer, inner) ==
    /\ Encloses(outer, inner)
    /\ ~\E between \in Scopes(lang, tree) :
            Encloses(outer, between) /\ Encloses(between, inner)

GrammarCalls(langs) ==
    {k \in 1..Len(calls) : GrammarBased(calls[k]) /\ calls[k].language \in langs}

\* C21 as stated: every contains relationship (p, c) that the grammar-based
\* traversal of a Python or Java file emits links the declaration that
\* immediately encloses the declaration of c to c, at every nesting depth.
C21_ContainsIsImmediate ==
    \A k \in GrammarCalls({"python", "java"}) :
        \A r \in Range(calls[k].result.relationships) :
            r[3] = "contains" =>
                \E outer, inner \in Scopes(calls[k].language, TreeOf(calls[k])) :
                    /\ r[1] = ElementId(calls[k].rel, _get_node_text(outer, "identifier"))
                    /\ r[2] = ElementId(calls[k].rel, _get_node_text(inner, "identifier"))
                    /\ ImmediatelyEncloses(calls[k].language, TreeOf(calls[k]), outer, inner)

\* C22 as stated: in the result of the grammar-based traversal of one file
\* an element has parent p exactly when the relationships hold
\* (p, id, contains), and an element that a contains relationship points to
\* has a parent.
C22_ParentMatchesContains ==
    \A k \in GrammarCalls({"python", "java"}) :
        \A id \in DOMAIN calls[k].result.elements :
            LET parent == calls[k].result.elements[id].parent
                holders == {r[1] : r \in {x \in Range(calls[k].result.relationships) :
                                            x[2] = id /\ x[3] = "contains"}}
            IN  /\ holders # {} => parent # None
                /\ parent # None => holders = {parent}

(***************************************************************************)
(* Properties of a whole run and of the pipeline.                          *)
(***************************************************************************)
\* C23 as stated: in one analyze_codebase run no file is analysed twice, and
\* the CCG's relationship sequence holds the relationships of a file as
\* often as one analysis of the file gives them, for every entry_points
\* list.
C23_EachFileOnce ==
    /\ \A i, j \in 1..Len(calls) : calls[i].rel = calls[j].rel => i = j
    /\ Returned =>
        \A f \in DueFiles :
            \A r \in Range(FileResult(f).relationships) :
                Count(ccg.relationships, r) = Count(FileResult(f).relationships, r)


\* C24 as stated: the pipeline is deterministic. For one repository content
\* and one language, two runs of entry-point detection return the same list in
\* the same order (and the relationship sequence of the CCG, which follows the
\* order of the entry points, is therefore the same).
C24_SameEntryPointsEveryRun ==
    \A j, k \in EntryPointCalls :
        (history[j].repo = history[k].repo /\ history[j].arg = history[k].arg)
            => history[j].result = history[k].result

\* the relative paths that a crawl or an entry-point search kept
KeptPaths(call) ==
    IF call.op = "_generate_file_tree" THEN {n.path : n \in TreeNodes(call.result)}
    ELSE IF call.result.raised THEN {}
    ELSE Range(call.result.list)

\* C25 as stated: whether the crawler and the entry-point locator ignore an
\* item depends only on the item's path relative to the repository root: two
\* repositories with the same items, cloned to different places, have the same
\* items in the tree and the same entry points.
C25_IgnoreByRelativePath ==
    \A j, k \in 1..Len(history) :
        (/\ history[j].op = history[k].op
         /\ history[j].arg = history[k].arg
         /\ Nodes(history[j].repo) = Nodes(history[k].repo))
            => KeptPaths(history[j]) = KeptPaths(history[k])

\* the item with the given relative path string
ItemAt(repo, path) == CHOOSE rel \in DOMAIN Nodes(repo) : JoinPath(rel) = path

\* C26 as stated: every path that _find_entry_points returns is a file that
\* the ignore set does not match, and is the path of a file node of the
\* repository's FileNode tree, whether the file was found by its name or by
\* its content.
C26_EntryPointsAreTreeFiles ==
    \A k \in EntryPointCalls :
        \A n \in 1..Len(history[k].result.list) :
            LET repo == history[k].repo
                path == history[k].result.list[n]
            IN  /\ \E rel \in DOMAIN Nodes(repo) : JoinPath(rel) = path
                /\ Nodes(repo)[ItemAt(repo, path)].kind = "file"
                /\ ~Ignored(repo, ItemAt(repo, path))
                /\ \E node \in TreeNodes(_generate_file_tree(repo)) :
                    node.path = path /\ node.type = "file"

(***************************************************************************)
(* GitManager (utils/git_utils.py).  A URL is the sequence of its pieces:  *)
(* every "/" is a piece, as are "https:", "github.com", "git@github.com:"  *)
(* and ".git"; the other pieces are runs of letters or one "_".  A local   *)
(* path below temp_dir is the sequence of the pieces of its last segment.  *)
(***************************************************************************)
Slash == "/"
HttpsGithub == <<"https:", Slash, Slash, "github.com", Slash>>
SshGithub == "git@github.com:"
DotGit == ".git"

\* https://github.com/o/r
UrlPlain == HttpsGithub \o <<"o", Slash, "r">>
\* https://github.com/o/r/
UrlTrailing == UrlPlain \o <<Slash>>
\* git@github.com:o/r.git
UrlSsh == <<SshGithub, "o", Slash, "r", DotGit>>
\* https://github.com/a_b/c and https://github.com/a/b_c
UrlOwnerUnderscore == HttpsGithub \o <<"a", "_", "b", Slash, "c">>
UrlRepoUnderscore == HttpsGithub \o <<"a", Slash, "b", "_", "c">>
\* https://github.com/o/s
UrlOther == HttpsGithub \o <<"o", Slash, "s">>
\* http://github.com/o/r
UrlHttp == <<"http:", Slash, Slash, "github.com", Slash, "o", Slash, "r">>

Urls == {UrlPlain, UrlTrailing, UrlSsh, UrlOwnerUnderscore, UrlRepoUnderscore,
         UrlOther, UrlHttp}

HasPrefix(url, prefix) ==
    Len(url) >= Len(prefix) /\ SubSeq(url, 1, Len(prefix)) = prefix

\* str.split('/')
RECURSIVE Split(_)
Split(url) ==
    IF \A k \in 1..Len(url) : url[k] # Slash THEN <<url>>
    ELSE LET k == CHOOSE n \in 1..Len(url) :
                    url[n] = Slash /\ \A m \in 1..(n - 1) : url[m] # Slash
         IN  <<SubSeq(url, 1, k - 1)>> \o Split(SubSeq(url, k + 1, Len(url)))

\* str.rstrip('/')
RECURSIVE RStrip(_)
RStrip(url) ==
    IF url # << >> /\ url[Len(url)] = Slash THEN RStrip(SubSeq(url, 1, Len(url) - 1))
    ELSE url

\* str.replace('git@github.com:', 'https://github.com/')
RECURSIVE ReplaceSsh(_)
ReplaceSsh(url) ==
    IF url = << >> THEN << >>
    ELSE (IF url[1] = SshGithub THEN HttpsGithub ELSE <<url[1]>>) \o ReplaceSsh(Tail(url))

\* re.match(r'https://github\.com/[^/]+/[^/]+/?$', url)
MatchesHttps(url) ==
    /\ HasPrefix(url, HttpsGithub)
    /\ LET parts == Split(SubSeq(url, Len(HttpsGithub) + 1, Len(url)))
       IN  /\ Len(parts) \in {2, 3}
           /\ parts[1] # << >> /\ parts[2] # << >>
           /\ Len(parts) = 3 => parts[3] = << >>

\* re.match(r'git@github\.com:[^/]+/[^/]+\.git$', url)
MatchesSsh(url) ==
    /\ HasPrefix(url, <<SshGithub>>)
    /\ LET parts == Split(Tail(url))
       IN  /\ Len(parts) = 2
           /\ parts[1] # << >>
           /\ Len(parts[2]) >= 2 /\ parts[2][Len(parts[2])] = DotGit

_is_valid_github_url(url) == MatchesHttps(url) \/ MatchesSsh(url)

_extract_repo_name(url) ==
    LET stripped == IF url # << >> /\ url[Len(url)] = DotGit
                    THEN SubSeq(url, 1, Len(url) - 1) ELSE url
        https == IF HasPrefix(stripped, <<SshGithub>>) THEN ReplaceSsh(stripped)
                 ELSE stripped
        parts == Split(RStrip(https))
    IN  IF Len(parts) >= 2
        THEN parts[Len(parts) - 1] \o <<"_">> \o parts[Len(parts)]
        ELSE <<"unknown_repo">>

\* Path(self.temp_dir) / f"codebase_genius_{repo_name}"
CloneDir(repo_name) == <<"codebase_genius_">> \o repo_name

Del(m, k) == [x \in DOMAIN m \ {k} |-> m[x]]

\* what the world does during one call: whether shutil.rmtree and
\* Repo.clone_from do their work or raise
GitWorlds == [rmtree : BOOLEAN, clone_from : BOOLEAN]

GitState(repos, dirs, result) == [cloned_repos |-> repos, clone_dirs |-> dirs,
                                  result |-> result]
CloneFailed == [success |-> FALSE]
Cloned(local_path, repo_name) ==
    [success |-> TRUE, local_path |-> local_path, repo_name |-> repo_name]

\* GitManager.clone_repository
clone_repository(repos, dirs, repo_url, world) ==
    IF ~_is_valid_github_url(repo_url) THEN GitState(repos, dirs, CloneFailed)
    ELSE LET repo_name == _extract_repo_name(repo_url)
             clone_dir == CloneDir(repo_name)
         IN  IF clone_dir \in dirs /\ ~world.rmtree
             THEN GitState(repos, dirs, CloneFailed)
             ELSE IF ~world.clone_from
             THEN GitState(repos, dirs \ {clone_dir}, CloneFailed)
             ELSE GitState(Put(repos, repo_url, clone_dir), dirs \cup {clone_dir},
                           Cloned(clone_dir, repo_name))

\* GitManager.cleanup_repository
cleanup_repository(repos, dirs, repo_url, world) ==
    IF repo_url \in DOMAIN repos
    THEN LET local_path == repos[repo_url]
         IN  IF local_path \in dirs /\ ~world.rmtree
             THEN GitState(repos, dirs, FALSE)
             ELSE GitState(Del(repos, repo_url), dirs \ {local_path}, TRUE)
    ELSE GitState(repos, dirs, FALSE)

InitGit ==
    /\ parsers = {}
    /\ pc = "git"
    /\ repo_path = None /\ language = None /\ entry_points = << >>
    /\ ep_idx = 1 /\ code_files = << >> /\ cf_idx = 1
    /\ elements = EmptyMap /\ relationships = << >> /\ graph = EmptyGraph
    /\ ccg = NoCCG /\ calls = << >>
    /\ query = << >> /\ results = << >>
    /\ detector = << >> /\ history = << >> /\ heap = << >>
    /\ InitService

\* manager.clone_repository(repo_url)
CloneRepository ==
    /\ pc = "git"
    /\ Len(history) < MaxGitCalls
    /\ \E repo_url \in Urls, world \in GitWorlds :
        \E out \in {clone_repository(cloned_repos, clone_dirs, repo_url, world)} :
            /\ cloned_repos' = out.cloned_repos
            /\ clone_dirs' = out.clone_dirs
            /\ history' = Append(history,
                    HistoryCall("clone_repository", repo_url, world, out.result))
    /\ UNCHANGED <<AnalyzerVars, detector, heap>>
    /\ UNCHANGED <<analysis_history, analysis_results, analysis_status, now>>

\* manager.cleanup_repository(repo_url)
CleanupRepository ==
    /\ pc = "git"
    /\ Len(history) < MaxGitCalls
    /\ \E repo_url \in Urls, world \in GitWorlds :
        \E out \in {cleanup_repository(cloned_repos, clone_dirs, repo_url, world)} :
            /\ cloned_repos' = out.cloned_repos
            /\ clone_dirs' = out.clone_dirs
            /\ history' = Append(history,
                    HistoryCall("cleanup_repository", repo_url, world, out.result))
    /\ UNCHANGED <<AnalyzerVars, detector, heap>>
    /\ UNCHANGED <<analysis_history, analysis_results, analysis_status, now>>

NextGit == CloneRepository \/ CleanupRepository

SpecGit == InitGit /\ [][NextGit]_vars

\* C27 as stated: after any sequence of clone_repository and
\* cleanup_repository calls, two different URLs in cloned_repos never map to
\* the same local directory, and every URL in cloned_repos maps to a
\* directory that exists.
C27_ClonesApartAndPresent ==
    /\ \A u, v \in DOMAIN cloned_repos : cloned_repos[u] = cloned_repos[v] => u = v
    /\ \A u \in DOMAIN cloned_repos : cloned_repos[u] \in clone_dirs

(***************************************************************************)
(* CodeGenius (agents/code_genius.py) on top of RepoMapper.map_repository. *)
(* The mapping, analysis and documentation stages are kept as what the     *)
(* supervisor sees of them: each returns its object or raises.  An         *)
(* Optional field is << >> for None and <<value>> otherwise.               *)
(***************************************************************************)
Null == << >>
Some(value) == <<value>>

Stages == <<"map_repository", "analyze_codebase", "generate_documentation",
            "save_documentation">>

\* what the world does during one analyze_repository call: the clone, the
\* stage that raises (if any), and whether shutil.rmtree works in the
\* cleanup after a mapping error and in the final cleanup
GeniusWorlds ==
    [clone : GitWorlds, raises : Range(Stages) \cup {"nothing"},
     error_cleanup : [rmtree : BOOLEAN], final_cleanup : [rmtree : BOOLEAN]]

RepoMap(repo_url, local_path) == [repo_url |-> repo_url, local_path |-> local_path]

AnalysisResult(repo_map, graph_of_code, documentation, success, error_message) ==
    [repo_map |-> repo_map, ccg |-> graph_of_code, documentation |-> documentation,
     success |-> success, error_message |-> error_message]

Failure(cause) == AnalysisResult(Null, Null, Null, FALSE, Some(<<"Analysis failed", cause>>))

\* RepoMapper.map_repository: the state of the git manager and either the
\* RepoMap or the exception
map_repository(repos, dirs, repo_url, world) ==
    LET cloned == clone_repository(repos, dirs, repo_url, world.clone)
    IN  IF ~cloned.result.success
        THEN GitState(cloned.cloned_repos, cloned.clone_dirs,
                      Raised("Failed to clone repository"))
        ELSE IF world.raises = "map_repository"
        THEN LET cleaned == cleanup_repository(cloned.cloned_repos, cloned.clone_dirs,
                                               repo_url, world.error_cleanup)
             IN  GitState(cleaned.cloned_repos, cleaned.clone_dirs,
                          Raised("Failed to map repository"))
        ELSE GitState(cloned.cloned_repos, cloned.clone_dirs,
                      [raised |-> FALSE,
                       repo_map |-> RepoMap(repo_url, cloned.result.local_path)])

\* the try block of analyze_repository after map_repository returned
AnalyzeAndDocument(repos, repo_url, repo_map, world) ==
    IF world.raises \in {"analyze_codebase", "generate_documentation",
                         "save_documentation"}
    THEN Failure(world.raises)
    ELSE AnalysisResult(Some(repo_map),
                        Some([repo_path |-> repos[repo_url]]),
                        Some([repo_name |-> _extract_repo_name(repo_url)]),
                        TRUE, Null)

\* CodeGenius.analyze_repository: try, except Exception, finally
analyze_repository(repos, dirs, past, repo_url, world) ==
    LET mapped == map_repository(repos, dirs, repo_url, world)
        result == IF mapped.result.raised THEN Failure(mapped.result.error)
                  ELSE AnalyzeAndDocument(mapped.cloned_repos, repo_url,
                                          mapped.result.repo_map, world)
        cleaned == cleanup_repository(mapped.cloned_repos, mapped.clone_dirs,
                                      repo_url, world.final_cleanup)
    IN  [cloned_repos |-> cleaned.cloned_repos, clone_dirs |-> cleaned.clone_dirs,
         analysis_history |-> Append(past, result), result |-> result]

\* GitManager.cleanup_all, with one outcome of shutil.rmtree for the call
cleanup_all(repos, dirs, world) ==
    IF world.rmtree
    THEN GitState(EmptyMap, dirs \ {repos[u] : u \in DOMAIN repos}, TRUE)
    ELSE GitState([u \in {v \in DOMAIN repos : repos[v] \in dirs} |-> repos[u]],
                  dirs, TRUE)

InitGenius ==
    /\ parsers = {}
    /\ pc = "genius"
    /\ repo_path = None /\ language = None /\ entry_points = << >>
    /\ ep_idx = 1 /\ code_files = << >> /\ cf_idx = 1
    /\ elements = EmptyMap /\ relationships = << >> /\ graph = EmptyGraph
    /\ ccg = NoCCG /\ calls = << >>
    /\ query = << >> /\ results = << >>
    /\ detector = << >> /\ history = << >> /\ heap = << >>
    /\ InitService

\* genius.analyze_repository(repo_url)
AnalyzeRepository ==
    /\ pc = "genius"
    /\ Len(history) < MaxAnalyses
    /\ \E repo_url \in Urls, world \in GeniusWorlds :
        \E out \in {analyze_repository(cloned_repos, clone_dirs, analysis_history,
                                       repo_url, world)} :
            /\ cloned_repos' = out.cloned_repos
            /\ clone_dirs' = out.clone_dirs
            /\ analysis_history' = out.analysis_history
            /\ history' = Append(history,
                    HistoryCall("analyze_repository", repo_url, world, out.result))
    /\ UNCHANGED <<AnalyzerVars, detector, heap>>
    /\ UNCHANGED <<analysis_results, analysis_status, now>>

\* genius.cleanup_all()
CleanupAll ==
    /\ pc = "genius"
    /\ Len(history) < MaxAnalyses
    /\ \E world \in [rmtree : BOOLEAN] :
        \E out \in {cleanup_all(cloned_repos, clone_dirs, world)} :
            /\ cloned_repos' = out.cloned_repos
            /\ clone_dirs' = out.clone_dirs
            /\ history' = Append(history,
                    HistoryCall("cleanup_all", None, world, out.result))
    /\ UNCHANGED <<AnalyzerVars, detector, heap>>
    /\ UNCHANGED <<analysis_history, analysis_results, analysis_status, now>>

NextGenius == AnalyzeRepository \/ CleanupAll

SpecGenius == InitGenius /\ [][NextGenius]_vars

IsSuccess(result) ==
    /\ result.success
    /\ result.repo_map # Null /\ result.ccg # Null /\ result.documentation # Null
IsFailure(result) ==
    /\ ~result.success
    /\ result.repo_map = Null /\ result.ccg = Null /\ result.documentation = Null
    /\ result.error_message # Null

\* C28 as stated: every call of CodeGenius.analyze_repository appends exactly
\* one AnalysisResult to analysis_history, on success with repo_map, ccg and
\* documentation, on failure with none of them and an error message, and
\* when the call returns the repository URL is not in cloned_repos.
C28_OneResultAndCleanedUp ==
    [][(Len(history') = Len(history) + 1
            /\ history'[Len(history')].op = "analyze_repository") =>
          /\ analysis_history' = Append(analysis_history, history'[Len(history')].result)
          /\ (IsSuccess(history'[Len(history')].result)
                \/ IsFailure(history'[Len(history')].result))
          /\ history'[Len(history')].repo \notin DOMAIN cloned_repos']_vars

(***************************************************************************)
(* The API backend (main.py).  Every handler is an `async def` without an  *)
(* await, so the event loop runs each request from its first line to its   *)
(* return before it starts the next one.                                   *)
(***************************************************************************)
\* f"analysis_{datetime.now().strftime('%Y%m%d_%H%M%S')}": the time cut to
\* whole seconds
AnalysisId(time) == <<"analysis_", time \div 2>>
AnalysisIds == {AnalysisId(time) : time \in 0..(MaxNow + 1)}

\* the URLs that pass the HttpUrl validation of AnalysisRequest
ApiUrls == {UrlPlain, UrlOther, UrlHttp}

ApiWorlds ==
    {world \in GeniusWorlds :
        /\ world.raises \in {"nothing", "analyze_codebase"}
        /\ world.clone.rmtree /\ world.error_cleanup.rmtree
        /\ world.final_cleanup.rmtree}

AnalysisStatus(analysis_id, status, message, result) ==
    [analysis_id |-> analysis_id, status |-> status, message |-> message,
     result |-> result]

Running(analysis_id) == AnalysisStatus(analysis_id, "running", "Starting analysis...", Null)

\* a handler that stores a final status only for a successful analysis
StatusLeftRunning(analysis_id, repo_url, result) ==
    IF result.success
    THEN AnalysisStatus(analysis_id, "completed", "Analysis completed successfully",
                        Some([repo_name |-> _extract_repo_name(repo_url)]))
    ELSE Running(analysis_id)

\* the status stored after the analysis returned
StatusFor(analysis_id, repo_url, result) ==
    IF result.success
    THEN AnalysisStatus(analysis_id, "completed", "Analysis completed successfully",
                        Some([repo_name |-> _extract_repo_name(repo_url)]))
    ELSE AnalysisStatus(analysis_id, "failed", "Analysis failed",
                        Some([error |-> result.error_message]))

AnalysisResponse(success, analysis_id, repo_name, error) ==
    [success |-> success, analysis_id |-> analysis_id, repo_name |-> repo_name,
     error |-> error]

HTTPException(status_code) == [status_code |-> status_code]

InitApi ==
    /\ parsers = {}
    /\ pc = "api"
    /\ repo_path = None /\ language = None /\ entry_points = << >>
    /\ ep_idx = 1 /\ code_files = << >> /\ cf_idx = 1
    /\ elements = EmptyMap /\ relationships = << >> /\ graph = EmptyGraph
    /\ ccg = NoCCG /\ calls = << >>
    /\ query = << >> /\ results = << >>
    /\ detector = << >> /\ history = << >> /\ heap = << >>
    /\ InitService

\* time passes between two requests
Tick ==
    /\ pc = "api"
    /\ now < MaxNow
    /\ now' = now + 1
    /\ UNCHANGED <<AnalyzerVars, detector, history, heap>>
    /\ UNCHANGED <<cloned_repos, clone_dirs, analysis_history, analysis_results,
                   analysis_status>>

\* POST /analyze: the status is set to running, the analysis runs, and the
\* result and the final status are stored under the same id; the analysis
\* takes less than half a second or more
PostAnalyze ==
    /\ pc = "api"
    /\ Len(history) < MaxRequests
    /\ \E repo_url \in ApiUrls, world \in ApiWorlds, elapsed \in {0, 1} :
        \E analysis_id \in {AnalysisId(now)} :
        \E started \in {Put(analysis_status, analysis_id, Running(analysis_id))} :
        \E out \in {analyze_repository(cloned_repos, clone_dirs, analysis_history,
                                       repo_url, world)} :
            /\ now + elapsed <= MaxNow + 1
            /\ now' = now + elapsed
            /\ cloned_repos' = out.cloned_repos
            /\ clone_dirs' = out.clone_dirs
            /\ analysis_history' = out.analysis_history
            /\ analysis_results' = Put(analysis_results, analysis_id, out.result)
            /\ analysis_status' = Put(started, analysis_id,
                                      StatusFor(analysis_id, repo_url, out.result))
            /\ history' = Append(history,
                    HistoryCall("analyze_repository", repo_url, out.result,
                        AnalysisResponse(out.result.success, analysis_id,
                            IF out.result.success THEN _extract_repo_name(repo_url)
                            ELSE << >>,
                            out.result.error_message)))
    /\ UNCHANGED <<AnalyzerVars, detector, heap>>

\* GET /analyze/{analysis_id}/result
GetAnalysisResult ==
    /\ pc = "api"
    /\ Len(history) < MaxRequests
    /\ \E analysis_id \in AnalysisIds :
        history' = Append(history,
            HistoryCall("get_analysis_result", None, analysis_id,
                IF analysis_id \notin DOMAIN analysis_results THEN HTTPException(404)
                ELSE IF ~analysis_results[analysis_id].success THEN HTTPException(400)
                ELSE [analysis_id |-> analysis_id,
                      success |-> analysis_results[analysis_id].success,
                      repo_map |-> analysis_results[analysis_id].repo_map[1],
                      ccg |-> analysis_results[analysis_id].ccg[1],
                      documentation |-> analysis_results[analysis_id].documentation[1]]))
    /\ UNCHANGED <<AnalyzerVars, detector, heap, ServiceVars>>

\* DELETE /analyze/{analysis_id}
DeleteAnalysis ==
    /\ pc = "api"
    /\ Len(history) < MaxRequests
    /\ \E analysis_id \in AnalysisIds :
        IF analysis_id \notin DOMAIN analysis_results
        THEN /\ history' = Append(history,
                    HistoryCall("delete_analysis", None, analysis_id, HTTPException(404)))
             /\ UNCHANGED <<analysis_results, analysis_status>>
        ELSE /\ analysis_results' = Del(analysis_results, analysis_id)
             /\ analysis_status' = Del(analysis_status, analysis_id)
             /\ history' = Append(history,
                    HistoryCall("delete_analysis", None, analysis_id,
                        [message |-> "Analysis deleted successfully"]))
    /\ UNCHANGED <<AnalyzerVars, detector, heap>>
    /\ UNCHANGED <<cloned_repos, clone_dirs, analysis_history, now>>

NextApi == Tick \/ PostAnalyze \/ GetAnalysisResult \/ DeleteAnalysis

SpecApi == InitApi /\ [][NextApi]_vars

\* C29: after every completed analyze or delete request analysis_results
\* and analysis_status have the same ids, no id has the status running, and
\* an id has the status completed when its stored result has success true
\* and failed otherwise.
C29_ResultsAndStatusAgree ==
    /\ DOMAIN analysis_results = DOMAIN analysis_status
    /\ \A id \in DOMAIN analysis_status :
        /\ analysis_status[id].status # "running"
        /\ analysis_status[id].status =
            (IF analysis_results[id].success THEN "completed" ELSE "failed")

\* an analysis succeeded, one failed, and a stored analysis was deleted
C29_Witness ==
    /\ \E k \in 1..Len(history) :
        history[k].op = "analyze_repository" /\ history[k].result.success
    /\ \E k \in 1..Len(history) :
        history[k].op = "analyze_repository" /\ ~history[k].result.success
    /\ \E k \in 1..Len(history) :
        history[k].op = "delete_analysis" /\ history[k].result = [message |-> "Analysis deleted successfully"]
    /\ analysis_results # << >>

AnalyzeRequests == {k \in 1..Len(history) : history[k].op = "analyze_repository"}

DeletedAfter(k, id) ==
    \E d \in (k + 1)..Len(history) :
        /\ history[d].op = "delete_analysis" /\ history[d].arg = id
        /\ history[d].result # HTTPException(404)

\* C30 as stated: two different analyze requests never receive the same
\* analysis_id, and the result and status stored for a request stay stored
\* under its id until that id is deleted.
C30_IdsAreUnique ==
    /\ \A j, k \in AnalyzeRequests :
        history[j].result.analysis_id = history[k].result.analysis_id => j = k
    /\ \A k \in AnalyzeRequests :
        ~DeletedAfter(k, history[k].result.analysis_id) =>
            /\ history[k].result.analysis_id \in DOMAIN analysis_results
            /\ analysis_results[history[k].result.analysis_id] = history[k].arg
            /\ analysis_status[history[k].result.analysis_id] =
                StatusFor(history[k].result.analysis_id, history[k].repo, history[k].arg)

=============================================================================
